---------------------------- MODULE Spec2Model ----------------------------
(***************************************************************************)
(* Verification model of the survey workbench (Flask application):        *)
(*   - DataEncoder                (src/app/app_encoder/encoder.py)         *)
(*   - EncodingConfigManager      (src/app/app_encoder/encoder_manager.py) *)
(*   - WorkspaceManager           (src/app/app_file_mgt/file_workspace_mgt.py) *)
(*   - DataBootstrapper           (src/app/ops_bootstrap.py)               *)
(* Each subsystem has its own specification over its own variables; the    *)
(* variables of the other subsystems stay at their initial value.          *)
(***************************************************************************)
EXTENDS Integers, Sequences, FiniteSets, TLC

VARIABLES
    \* ---- DataEncoder object and its caller (encoder.py, run_encoding)
    raw_df,      \* the dataframe handed to DataEncoder(dataframe, config)
    eng,         \* the DataEncoder object: df, config, codebook, warnings, learned_value_maps
    encPc,       \* position inside encode(): which _encode_* method runs next
    \* ---- database and generated files (encoder_models.py, encoder_routes.py)
    definitions,       \* table encoder_definitions: id -> row
    column_encodings,  \* table column_encodings: id -> row
    sim_df,            \* study -> the simulated data file of the study, as read_csv reads it
    outputs,           \* study -> the encoded file and the codebook file run_encoding saved
    response,          \* what the last request flashed
    \* ---- WorkspaceManager and the file system (file_workspace_mgt.py, auth_routes.py)
    fs_dirs,     \* the directories that exist, as absolute paths
    fs_files,    \* the files that exist: absolute path -> bytes
    call,        \* the save_file call in progress and its position
    ret,         \* the last call that ended: what it returned or raised, the paths it used
    saved,       \* history: <<user_id, project_code, filename>> -> the text last saved
    \* ---- DataBootstrapper (ops_bootstrap.py, ops_routes.py)
    question_map,   \* self.question_map: the column keys, in the order of the map file
    original_df,    \* self.original_df
    simulated_df,   \* self.simulated_df: <<>> (None) or <<dataframe>>
    boot,           \* the last bootstrap call that ended: its arguments and outcome
    \* ---- question map file of a study (ops_bootstrap.py __init__, ops_routes.py recreate_map)
    csv_file,   \* the header line of the CSV file at file_path
    map_file,   \* the map file at map_path: <<>> (no file) or <<content>>
    made,   \* the last DataBootstrapper that was constructed: its question_map
    first_made,   \* history: question_map and file content of the first construction
    kept,  \* history: the same of the first construction since the map file was last deleted
    \* ---- encoder prototypes (config.py, encoder_manager.py seed_prototypes, refresh_prototypes)
    config_file,   \* the [[prototypes]] tables of config.toml as the file is now
    cached_prototypes,   \* AppConfig._prototypes: <<>> (None) or <<list>>
    encoder_prototypes,   \* table encoder_prototypes: the rows in the order of their ids
    app_running,   \* create_app has returned
    seeded,  \* the last seeding that ended: caller, outcome, rows added, the file at that time
    \* ---- user codes and project codes (app_database/encoder_models.py)
    user_codes,   \* column users.user_code: the codes stored, in the order of the ids
    project_codes,   \* column studies.project_code: the codes stored, in the order of the ids
    user_issued,   \* the codes generate_user_code has returned, in call order
    project_issued,  \* the codes generate_project_code has returned, in call order
    \* ---- analysis (analysis_routes.py, analysis_manager.py)
    session,   \* the Flask session of the client: a dict
    encoded_file,   \* per study: <<>> or <<columns of <base>_encoded.csv>>
    manager,   \* the last AnalysisManager made: study, outcome, columns of its data
    reset_done,  \* the studies reset by the dashboard, with no composite created since
    \* ---- projects and their requesters (file_mgt.py, app_routes.py)
    studies,   \* table studies: per study id <<>> or <<[user_id, name]>>
    project_files,   \* per study id the files of the study that exist
    current_user,   \* the user logged in on the client, 0 for an anonymous client
    served   \* the last request for a study: route, requester, owner, outcome, effect

encVars == <<raw_df, eng, encPc>>
dbVars == <<definitions, column_encodings, sim_df, outputs, response>>
wsVars == <<fs_dirs, fs_files, call, ret, saved>>
bootVars == <<question_map, original_df, simulated_df, boot>>
mapVars == <<csv_file, map_file, made, first_made, kept>>
protoVars == <<config_file, cached_prototypes, encoder_prototypes, app_running, seeded>>
codeVars == <<user_codes, project_codes, user_issued, project_issued>>
anaVars == <<session, encoded_file, manager, reset_done>>
aclVars == <<studies, project_files, current_user, served>>

vars == <<encVars, dbVars, wsVars, bootVars, mapVars, protoVars, codeVars, anaVars, aclVars>>

\* the variables a subsystem leaves alone
NotEnc == <<dbVars, wsVars, bootVars, mapVars, protoVars, codeVars, anaVars, aclVars>>
NotDb == <<encVars, wsVars, bootVars, mapVars, protoVars, codeVars, anaVars, aclVars>>
NotWs == <<encVars, dbVars, bootVars, mapVars, protoVars, codeVars, anaVars, aclVars>>
NotBoot == <<encVars, dbVars, wsVars, mapVars, protoVars, codeVars, anaVars, aclVars>>
NotMap == <<encVars, dbVars, wsVars, bootVars, protoVars, codeVars, anaVars, aclVars>>
NotProto == <<encVars, dbVars, wsVars, bootVars, mapVars, codeVars, anaVars, aclVars>>
NotCode == <<encVars, dbVars, wsVars, bootVars, mapVars, protoVars, anaVars, aclVars>>
NotAna == <<encVars, dbVars, wsVars, bootVars, mapVars, protoVars, codeVars, aclVars>>
NotAcl == <<encVars, dbVars, wsVars, bootVars, mapVars, protoVars, codeVars, anaVars>>

(***************************************************************************)
(* Values.  A text is a sequence of one-character strings.  A dataframe    *)
(* cell, a JSON value and a dictionary value are tagged records, so that   *)
(* values of different Python types can be compared.                       *)
(***************************************************************************)
Txt(s)  == [k |-> "txt", v |-> s]
Num(n)  == [k |-> "num", v |-> n]
NULL    == [k |-> "null", v |-> 0]
Dict(d) == [k |-> "dict", v |-> d]
List(l) == [k |-> "list", v |-> l]

IsNull(c) == c.k = "null"

\* Sequence helpers
RECURSIVE SeqToSet(_)
SeqToSet(s) == IF s = <<>> THEN {} ELSE {Head(s)} \cup SeqToSet(Tail(s))

Last(s) == s[Len(s)]
Front(s) == SubSeq(s, 1, Len(s) - 1)

\* A Python dict: a sequence of <<key, value>> pairs in insertion order, keys distinct.
DictKeys(d) == {d[i][1] : i \in 1..Len(d)}
DictHas(d, key) == \E i \in 1..Len(d) : d[i][1] = key
DictGet(d, key, default) ==
    IF DictHas(d, key) THEN d[CHOOSE i \in 1..Len(d) : d[i][1] = key][2] ELSE default
DictPut(d, key, val) ==
    IF DictHas(d, key)
    THEN [i \in 1..Len(d) |-> IF d[i][1] = key THEN <<key, val>> ELSE d[i]]
    ELSE Append(d, <<key, val>>)
RECURSIVE DictFromPairs(_)
\* dict comprehension {k: v for ...}: a later pair with the same key wins
DictFromPairs(pairs) ==
    IF pairs = <<>> THEN <<>>
    ELSE DictPut(DictFromPairs(Front(pairs)), Last(pairs)[1], Last(pairs)[2])

(***************************************************************************)
(* Characters and str.lower(), \s, sorted()                                *)
(***************************************************************************)
\* code points of the characters the model uses (for sorted() on strings)
Ord(c) ==
    CASE c = "\t" -> 9  [] c = " " -> 32 [] c = "," -> 44 [] c = "0" -> 48
      [] c = "1" -> 49  [] c = "2" -> 50 [] c = "3" -> 51 [] c = "A" -> 65
      [] c = "N" -> 78  [] c = "Y" -> 89 [] c = "_" -> 95 [] c = "a" -> 97
      [] c = "e" -> 101 [] c = "n" -> 110 [] c = "s" -> 115 [] c = "y" -> 121
      [] c = "x" -> 120 [] c = "\n" -> 10 [] c = "\r" -> 13
      [] c = "%" -> 37  [] c = "-" -> 45 [] c = "4" -> 52 [] c = "5" -> 53
      [] c = "6" -> 54  [] c = "7" -> 55 [] c = "8" -> 56 [] c = "9" -> 57
      [] c = "B" -> 66  [] c = "D" -> 68 [] c = "L" -> 76 [] c = "b" -> 98
      [] OTHER -> 63

LowerChar(c) ==
    CASE c = "A" -> "a" [] c = "N" -> "n" [] c = "Y" -> "y" [] OTHER -> c

IsSpace(c) == c \in {" ", "\t"}
IsAlnum(c) == c \in {"0", "1", "2", "3", "A", "N", "Y", "a", "e", "n", "s", "y"}

Lower(t) == [i \in 1..Len(t) |-> LowerChar(t[i])]

RECURSIVE CollapseWs(_)
\* re.sub(r'\s+', ' ', text): every maximal run of whitespace becomes one blank
CollapseWs(t) ==
    IF t = <<>> THEN <<>>
    ELSE IF IsSpace(Head(t))
         THEN IF Len(t) > 1 /\ IsSpace(t[2]) THEN CollapseWs(Tail(t))
              ELSE <<" ">> \o CollapseWs(Tail(t))
         ELSE <<Head(t)>> \o CollapseWs(Tail(t))

RECURSIVE LStrip(_)
LStrip(t) == IF t # <<>> /\ IsSpace(Head(t)) THEN LStrip(Tail(t)) ELSE t
RECURSIVE RStrip(_)
RStrip(t) == IF t # <<>> /\ IsSpace(Last(t)) THEN RStrip(Front(t)) ELSE t
Strip(t) == RStrip(LStrip(t))

RECURSIVE StrLess(_, _)
\* Python's < on str: lexicographic by code point
StrLess(a, b) ==
    IF b = <<>> THEN FALSE
    ELSE IF a = <<>> THEN TRUE
    ELSE IF Ord(Head(a)) # Ord(Head(b)) THEN Ord(Head(a)) < Ord(Head(b))
    ELSE StrLess(Tail(a), Tail(b))

RECURSIVE SortedTexts(_)
\* sorted(values) for a collection of distinct texts
SortedTexts(S) ==
    IF S = {} THEN <<>>
    ELSE LET m == CHOOSE x \in S : \A y \in S \ {x} : StrLess(x, y)
         IN <<m>> \o SortedTexts(S \ {m})

RECURSIVE StrOfNat(_)
\* str(n) for a natural number
StrOfNat(n) ==
    LET d == <<"0", "1", "2", "3", "4", "5", "6", "7", "8", "9">>
    IN IF n < 10 THEN <<d[n + 1]>> ELSE StrOfNat(n \div 10) \o <<d[(n % 10) + 1]>>

\* str(value) of a dataframe cell; NaN prints as 'nan'
StrOf(c) ==
    CASE c.k = "txt" -> c.v
      [] c.k = "num" -> StrOfNat(c.v)
      [] OTHER -> <<"n", "a", "n">>

\* DataEncoder._normalize_text
NormalizeText(c) == Lower(Strip(CollapseWs(StrOf(c))))

(***************************************************************************)
(* DataEncoder (encoder.py, the version after the merge marker, l.176-300) *)
(*   e.df                  column name -> sequence of cells                *)
(*   e.config              the dictionary of generate_encoder_class_config *)
(*   e.codebook            dict: column name -> entry                      *)
(*   e.warnings            list of {column_key, unmapped_values}           *)
(*   e.learned_value_maps  dict: column name -> value map                  *)
(* A column name is a sequence: <<"q1">>, or <<"q3", "_", "y", ...>> for a  *)
(* column that _encode_nominal_multi derives from q3.                      *)
(***************************************************************************)
\* Python truthiness of a JSON value
Truthy(x) ==
    CASE x.k = "dict" -> x.v # <<>>
      [] x.k = "list" -> x.v # <<>>
      [] x.k = "txt"  -> x.v # <<>>
      [] x.k = "num"  -> x.v # 0
      [] OTHER -> FALSE

\* DataEncoder.__init__
NewDataEncoder(dataframe, config) ==
    [df |-> dataframe, config |-> config, codebook |-> <<>>,
     warnings |-> <<>>, learned_value_maps |-> <<>>]

\* self.column_map.get(col_key, default)
QuestionText(e, col_key, default) == DictGet(e.config.column_map, col_key, default)

\* the three assignments self.codebook[col_key][...] = ...
CodebookEntry(e, col_key, encoder_type, value_map, default) ==
    DictPut(e.codebook, col_key,
            [question_text |-> QuestionText(e, col_key, default),
             encoder_type |-> encoder_type, value_map |-> value_map])

NormalizedDefMap(definition_map) ==
    DictFromPairs([i \in 1..Len(definition_map) |->
                      <<NormalizeText(definition_map[i][1]), definition_map[i][2]>>])

\* self.df[col_key].dropna()
NonNullCells(col) == {col[i] : i \in {j \in 1..Len(col) : ~IsNull(col[j])}}

UnmappedNormalized(col, definition_map) ==
    {NormalizeText(c) : c \in NonNullCells(col)} \ DictKeys(NormalizedDefMap(definition_map))

\* mutant: the data is lower-cased but its whitespace is not normalized before the lookup
SmartMappedColumn_NoWhitespace(col, definition_map) ==
    [i \in 1..Len(col) |-> DictGet(NormalizedDefMap(definition_map), Lower(StrOf(col[i])), NULL)]

\* the column after  .apply(self._normalize_text).map(normalized_def_map)
SmartMappedColumn(col, definition_map) ==
    [i \in 1..Len(col) |-> DictGet(NormalizedDefMap(definition_map), NormalizeText(col[i]), NULL)]

\* DataEncoder._perform_smart_mapping
PerformSmartMapping(e, col_key, definition_map, encoder_type) ==
    IF col_key \notin DOMAIN e.df THEN e
    ELSE
      LET col == e.df[col_key]
          unmapped == UnmappedNormalized(col, definition_map)
          original_unmapped == {StrOf(c) : c \in {x \in NonNullCells(col) : NormalizeText(x) \in unmapped}}
          w == IF unmapped # {}
               THEN Append(e.warnings, [column_key |-> col_key,
                                        unmapped_values |-> SortedTexts(original_unmapped)])
               ELSE e.warnings
      IN [e EXCEPT !.warnings = w,
                   !.df = [e.df EXCEPT ![col_key] = SmartMappedColumn(col, definition_map)],
                   !.codebook = CodebookEntry(e, col_key, encoder_type,
                                   DictFromPairs([i \in 1..Len(definition_map) |->
                                       <<definition_map[i][2], definition_map[i][1]>>]),
                                   <<"N/A">>)]

ConfigErrorText == <<"Configuration Error: Likert definition for this column is missing a valid 'map' object.">>

\* one iteration of the loop of DataEncoder._encode_likert
LikertStep(e, col_key, cfg) ==
    LET actual_map == DictGet(cfg, "map", Dict(<<>>))
    IN IF ~Truthy(actual_map) \/ actual_map.k # "dict"
       THEN [e EXCEPT !.warnings = Append(e.warnings,
                         [column_key |-> col_key, unmapped_values |-> <<ConfigErrorText>>])]
       ELSE PerformSmartMapping(e, col_key, actual_map.v, "Likert")

\* ordinal_map = {value: i for i, value in enumerate(order_list)}
OrdinalMap(order_list) ==
    DictFromPairs([i \in 1..Len(order_list) |-> <<order_list[i], Num(i - 1)>>])

\* enumerate(order_list) or the dict comprehension raises TypeError: the order is a
\* number or null, or a value of the list is a list or a dict (unhashable)
OrdinalRaises(cfg) ==
    LET order_list == DictGet(cfg, "order", List(<<>>))
    IN \/ order_list.k \in {"num", "null"}
       \/ /\ order_list.k = "list"
          /\ \E i \in 1..Len(order_list.v) : order_list.v[i].k \in {"list", "dict"}

RECURSIVE ItemsBeforeRaise(_)
\* the items of the loop of _encode_ordinal that end before the first one that raises
ItemsBeforeRaise(items) ==
    IF items = <<>> THEN <<>>
    ELSE IF OrdinalRaises(Head(items)[2]) THEN <<>>
    ELSE <<Head(items)>> \o ItemsBeforeRaise(Tail(items))

\* _encode_ordinal raises
EncodeOrdinalRaises(e) == \E i \in 1..Len(e.config.Ordinal) : OrdinalRaises(e.config.Ordinal[i][2])

\* one iteration of the loop of DataEncoder._encode_ordinal
OrdinalStep(e, col_key, cfg) ==
    PerformSmartMapping(e, col_key, OrdinalMap(DictGet(cfg, "order", List(<<>>)).v), "Ordinal")

PositiveVals == {<<"y", "e", "s">>, <<"t", "r", "u", "e">>, <<"1">>, <<"y">>}
BinaryValueMap == <<<<Num(0), Txt(<<"No/False">>)>>, <<Num(1), Txt(<<"Yes/True">>)>>>>

\* one iteration of the loop of DataEncoder._encode_binary
BinaryStep(e, col_key, cfg) ==
    IF col_key \notin DOMAIN e.df THEN e
    ELSE [e EXCEPT
            !.df = [e.df EXCEPT ![col_key] =
                      [i \in 1..Len(e.df[col_key]) |->
                          IF NormalizeText(e.df[col_key][i]) \in PositiveVals THEN Num(1) ELSE Num(0)]],
            !.codebook = CodebookEntry(e, col_key, "Binary", BinaryValueMap, <<"N/A">>),
            !.learned_value_maps = DictPut(e.learned_value_maps, col_key, BinaryValueMap)]

\* astype('category'): the categories are the sorted distinct non-null values
Categories(col) == SortedTexts({c.v : c \in NonNullCells(col)})
IndexOf(seq, x) == CHOOSE i \in 1..Len(seq) : seq[i] = x

\* mutant: a column key that is no column is factorized as a column without rows
NominalStep_NoCheck(e, col_key, cfg) ==
    LET col == IF col_key \in DOMAIN e.df THEN e.df[col_key] ELSE <<>>
        cats == Categories(col)
        value_map == [i \in 1..Len(cats) |-> <<Num(i - 1), Txt(cats[i])>>]
    IN [e EXCEPT
          !.df = (col_key :> [i \in 1..Len(col) |->
                      IF IsNull(col[i]) THEN NULL ELSE Num(IndexOf(cats, col[i].v) - 1)]) @@ e.df,
          !.codebook = CodebookEntry(e, col_key, "Nominal (Factorized)", value_map, <<"N/A">>),
          !.learned_value_maps = DictPut(e.learned_value_maps, col_key, value_map)]

\* one iteration of the loop of DataEncoder._encode_nominal_simple
NominalStep(e, col_key, cfg) ==
    IF col_key \notin DOMAIN e.df THEN e
    ELSE
      LET col == e.df[col_key]
          cats == Categories(col)
          value_map == [i \in 1..Len(cats) |-> <<Num(i - 1), Txt(cats[i])>>]
      IN [e EXCEPT
            !.df = [e.df EXCEPT ![col_key] =
                      [i \in 1..Len(col) |->
                          IF IsNull(col[i]) THEN NULL ELSE Num(IndexOf(cats, col[i].v) - 1)]],
            !.codebook = CodebookEntry(e, col_key, "Nominal (Factorized)", value_map, <<"N/A">>),
            !.learned_value_maps = DictPut(e.learned_value_maps, col_key, value_map)]

RECURSIVE FoldItems(_, _, _)
\* for col_key, config in configs.items(): e = Step(e, col_key, config)
FoldItems(Step(_, _, _), e, items) ==
    IF items = <<>> THEN e
    ELSE Step(FoldItems(Step, e, Front(items)), Last(items)[1], Last(items)[2])

EncodeLikert(e)        == FoldItems(LikertStep, e, e.config.Likert)
EncodeOrdinal(e)       == FoldItems(OrdinalStep, e, ItemsBeforeRaise(e.config.Ordinal))
EncodeBinary(e)        == FoldItems(BinaryStep, e, e.config.Binary)
EncodeNominalSimple(e) == FoldItems(NominalStep, e, e.config.Nominal)

RECURSIVE Split(_, _)
\* text.split(sep) for a one-character separator
Split(t, sep) ==
    IF \A i \in 1..Len(t) : t[i] # sep THEN <<t>>
    ELSE LET p == CHOOSE i \in 1..Len(t) : t[i] = sep /\ \A j \in 1..(i - 1) : t[j] # sep
         IN <<SubSeq(t, 1, p - 1)>> \o Split(SubSeq(t, p + 1, Len(t)), sep)

RECURSIVE KeepAlnum(_)
\* re.sub(r'[^a-zA-Z0-9]', '', cat)
KeepAlnum(t) ==
    IF t = <<>> THEN <<>>
    ELSE IF IsAlnum(Head(t)) THEN <<Head(t)>> \o KeepAlnum(Tail(t)) ELSE KeepAlnum(Tail(t))

\* f"{col_key}_{re.sub(r'[^a-zA-Z0-9]', '', cat).lower()}"
SanitizedName(col_key, cat) == col_key \o <<"_">> \o Lower(KeepAlnum(cat))

\* str.get_dummies(sep=',') reindexed to one category: 1 when the cell lists the category
Dummy(cell, cat) ==
    IF ~IsNull(cell) /\ cat # <<>> /\ cat \in SeqToSet(Split(cell.v, ",")) THEN Num(1) ELSE Num(0)

RECURSIVE MultiCodebook(_, _, _, _)
MultiCodebook(e, col_key, cats, cb) ==
    IF cats = <<>> THEN cb
    ELSE DictPut(MultiCodebook(e, col_key, Front(cats), cb), SanitizedName(col_key, Last(cats)),
                 [question_text |-> QuestionText(e, col_key, col_key) \o <<" (Category: ">> \o Last(cats) \o <<")">>,
                  encoder_type |-> "Binary (from Multi-Select)",
                  value_map |-> <<<<Num(0), Txt(<<"Not Present">>)>>, <<Num(1), Txt(<<"Present">>)>>>>])

\* one iteration of the loop of DataEncoder._encode_nominal_multi
MultiStep(e, col_key, cfg) ==
    LET cats == DictGet(cfg, "categories", List(<<>>)).v
        newNames == {SanitizedName(col_key, cats[i]) : i \in 1..Len(cats)}
        catOf(name) == cats[CHOOSE i \in 1..Len(cats) :
                               /\ SanitizedName(col_key, cats[i]) = name
                               /\ \A j \in (i + 1)..Len(cats) : SanitizedName(col_key, cats[j]) # name]
    IN IF col_key \notin DOMAIN e.df \/ cats = <<>> THEN e
       ELSE [e EXCEPT
               !.codebook = MultiCodebook(e, col_key, cats, e.codebook),
               !.df = [c \in (DOMAIN e.df \ {col_key}) \cup newNames |->
                          IF c \in newNames
                          THEN [i \in 1..Len(e.df[col_key]) |-> Dummy(e.df[col_key][i], catOf(c))]
                          ELSE e.df[c]]]

EncodeNominalMulti(e) == FoldItems(MultiStep, e, e.config.NominalMulti)

\* DataEncoder.encode: the five passes in the order of the code, when none raises
Encode(e) ==
    EncodeNominalMulti(EncodeNominalSimple(EncodeBinary(EncodeOrdinal(EncodeLikert(e)))))

(***************************************************************************)
(* Inputs of the DataEncoder specification                                 *)
(***************************************************************************)
MaxRows == 2      \* rows of the dataframe

Q1 == <<"q1">>
Q2 == <<"q2">>
Q3 == <<"q3">>      \* a column key of the configuration that the dataframe does not have

\* the raw values a cell of the survey file can hold
CellChoices ==
    {NULL, Txt(<<"a">>), Txt(<<" ", "A", "\t">>), Txt(<<"n">>), Txt(<<"Y", ",", "a">>)}

\* definition configurations (EncoderDefinition.configuration), by encoder type
LikertCfgs ==
    { <<<<"map", Dict(<<<<Txt(<<"a">>), Num(1)>>, <<Txt(<<"N">>), Num(2)>>>>)>>>>,
      <<<<"map", Dict(<<<<Txt(<<"A", " ">>), Num(1)>>, <<Txt(<<"a">>), Num(3)>>,
                        <<Txt(<<"n", "a", "n">>), Num(2)>>>>)>>>>,
      <<>>,
      <<<<"map", Dict(<<>>)>>>>,
      <<<<"map", List(<<Txt(<<"a">>)>>)>>>> }
OrdinalCfgs ==
    { <<<<"order", List(<<Txt(<<"a">>), Txt(<<"n">>)>>)>>>>,
      <<<<"order", List(<<>>)>>>>,
      <<<<"order", List(<<Txt(<<"n">>), Txt(<<" ", "N">>), Txt(<<"Y", ",", " ", "a">>)>>)>>>> }
MultiCfgs ==
    { <<<<"categories", List(<<<<"a">>, <<"Y">>, <<"y">>>>)>>>> }

\* what a column can be assigned: <<encoder type, configuration>>, or <<>> for no definition
Assignable ==
    ({"Likert"} \X LikertCfgs) \cup ({"Ordinal"} \X OrdinalCfgs)
      \cup ({"Binary", "Nominal"} \X {<<>>}) \cup ({"NominalMulti"} \X MultiCfgs)
\* the smaller choice for the second column
AssignableShort ==
    {<<>>, <<"Binary", <<>>>>, <<"Nominal", <<>>>>,
     <<"Likert", <<<<"map", Dict(<<<<Txt(<<"a">>), Num(1)>>, <<Txt(<<"N">>), Num(2)>>>>)>>>>>>,
     <<"Ordinal", <<<<"order", List(<<Txt(<<"a">>), Txt(<<"n">>)>>)>>>>>>}
      \cup ({"NominalMulti"} \X MultiCfgs)

\* the choice for the column key that the dataframe does not have
AssignableAbsent ==
    AssignableShort \cup {<<"Ordinal", <<<<"order", Num(5)>>>>>>}

ColumnMap == << <<Q1, <<"Question 1">>>>, <<Q2, <<"Question 2">>>>, <<Q3, <<"Question 3">>>> >>

RECURSIVE ItemsOfType(_, _, _)
\* encoder_config[prototype_type][column_key] = definition_config, in column order
ItemsOfType(assign, keys, type) ==
    IF keys = <<>> THEN <<>>
    ELSE LET rest == ItemsOfType(assign, Front(keys), type)
             a == assign[Last(keys)]
         IN IF a # <<>> /\ a[1] = type THEN Append(rest, <<Last(keys), a[2]>>) ELSE rest

EncoderTypes == {"Likert", "Ordinal", "Binary", "Nominal", "NominalMulti"}

\* the dictionary generate_encoder_class_config builds from the assignments
ConfigOf(assign, keys, column_map) ==
    [t \in EncoderTypes |-> ItemsOfType(assign, keys, t)] @@ [column_map |-> column_map]

DataVectors == UNION {[1..n -> CellChoices] : n \in 0..MaxRows}

(***************************************************************************)
(* The value of a subsystem's variables while another subsystem is checked *)
(***************************************************************************)
NoResponse == [route |-> "none", study_id |-> 0, category |-> "none", warnings |-> <<>>]

EncIdle ==
    /\ raw_df = <<>>
    /\ eng = NewDataEncoder(<<>>, <<>>)
    /\ encPc = "idle"

DbIdle ==
    /\ definitions = <<>>
    /\ column_encodings = <<>>
    /\ sim_df = <<>>
    /\ outputs = <<>>
    /\ response = NoResponse

NoCall == [pc |-> "idle", user_id |-> NULL, project_code |-> <<>>, filename |-> <<>>,
           data |-> NULL, target_path |-> <<>>, temp_path |-> <<>>, old |-> <<>>,
           touched |-> {}]
NoReturn == [op |-> "none", outcome |-> "none", user_id |-> NULL, project_code |-> <<>>,
             value |-> <<>>, checksum |-> <<>>, target_path |-> <<>>, temp_path |-> <<>>,
             old |-> <<>>, data |-> NULL, touched |-> {}]

WsIdle ==
    /\ fs_dirs = {}
    /\ fs_files = <<>>
    /\ call = NoCall
    /\ ret = NoReturn
    /\ saved = <<>>

NoFrame == [columns |-> <<>>, rows |-> <<>>]
NoBootCall == [op |-> "none", outcome |-> "none", new_size |-> 0, random_state |-> <<>>,
               start_remix_col |-> <<>>, end_remix_col |-> <<>>]

BootIdle ==
    /\ question_map = <<>>
    /\ original_df = NoFrame
    /\ simulated_df = <<>>
    /\ boot = NoBootCall

NoBootstrapper == [outcome |-> "none", question_map |-> <<>>]

MapIdle ==
    /\ csv_file = <<>>
    /\ map_file = <<>>
    /\ made = NoBootstrapper
    /\ first_made = <<>>
    /\ kept = <<>>

NoSeeding == [op |-> "none", outcome |-> "none", added |-> 0, file |-> <<>>]

ProtoIdle ==
    /\ config_file = <<>>
    /\ cached_prototypes = <<>>
    /\ encoder_prototypes = <<>>
    /\ app_running = FALSE
    /\ seeded = NoSeeding

CodeIdle ==
    /\ user_codes = <<>>
    /\ project_codes = <<>>
    /\ user_issued = <<>>
    /\ project_issued = <<>>

NoManager == [route |-> "none", study_id |-> 0, outcome |-> "none", columns |-> <<>>]

AnaIdle ==
    /\ session = <<>>
    /\ encoded_file = <<>>
    /\ manager = NoManager
    /\ reset_done = {}

NoRequest ==
    [route |-> "none", requester |-> 0, study_id |-> 0, owner |-> 0, outcome |-> "none",
     changed |-> FALSE, data |-> <<>>]

AclIdle ==
    /\ studies = <<>>
    /\ project_files = <<>>
    /\ current_user = 0
    /\ served = NoRequest

(***************************************************************************)
(* Specification of one DataEncoder: construction, then encode() pass by   *)
(* pass                                                                    *)
(***************************************************************************)
InitEncode ==
    /\ \E data \in DataVectors : raw_df = [c \in {Q1, Q2} |-> data]
    /\ \E a1 \in Assignable, a2 \in AssignableShort, a3 \in AssignableAbsent :
          eng = NewDataEncoder(raw_df, ConfigOf([c \in {Q1, Q2, Q3} |->
                                   IF c = Q1 THEN a1 ELSE IF c = Q2 THEN a2 ELSE a3],
                                   <<Q1, Q2, Q3>>, ColumnMap))
    /\ encPc = "likert"
    /\ DbIdle
    /\ WsIdle
    /\ BootIdle
    /\ MapIdle
    /\ ProtoIdle
    /\ CodeIdle
    /\ AnaIdle
    /\ AclIdle

RunEncodeLikert ==
    /\ encPc = "likert"
    /\ eng' = EncodeLikert(eng)
    /\ encPc' = "ordinal"
    /\ UNCHANGED <<raw_df, NotEnc>>

RunEncodeOrdinal ==
    /\ encPc = "ordinal"
    /\ eng' = EncodeOrdinal(eng)
    /\ encPc' = IF EncodeOrdinalRaises(eng) THEN "raised" ELSE "binary"
    /\ UNCHANGED <<raw_df, NotEnc>>

RunEncodeBinary ==
    /\ encPc = "binary"
    /\ eng' = EncodeBinary(eng)
    /\ encPc' = "nominal"
    /\ UNCHANGED <<raw_df, NotEnc>>

RunEncodeNominalSimple ==
    /\ encPc = "nominal"
    /\ eng' = EncodeNominalSimple(eng)
    /\ encPc' = "multi"
    /\ UNCHANGED <<raw_df, NotEnc>>

RunEncodeNominalMulti ==
    /\ encPc = "multi"
    /\ eng' = EncodeNominalMulti(eng)
    /\ encPc' = "done"
    /\ UNCHANGED <<raw_df, NotEnc>>

NextEncode ==
    \/ RunEncodeLikert
    \/ RunEncodeOrdinal
    \/ RunEncodeBinary
    \/ RunEncodeNominalSimple
    \/ RunEncodeNominalMulti

SpecEncode == InitEncode /\ [][NextEncode]_vars

(***************************************************************************)
(* C1 -- unmapped values of Likert and Ordinal columns                     *)
(***************************************************************************)
\* the definition map the claim speaks of: the 'map' object of a Likert definition,
\* value -> position for the 'order' list of an Ordinal definition
ClaimedDefinitionMap(type, cfg) ==
    IF type = "Likert"
    THEN LET m == DictGet(cfg, "map", Dict(<<>>)) IN IF m.k = "dict" THEN m.v ELSE <<>>
    ELSE LET o == DictGet(cfg, "order", List(<<>>)).v IN [i \in 1..Len(o) |-> <<o[i], Num(i - 1)>>]

\* rows of the raw column whose non-null cell normalizes to no normalized key
UnmappedRows(col, dmap) ==
    {i \in 1..Len(col) :
        /\ ~IsNull(col[i])
        /\ \A j \in 1..Len(dmap) : NormalizeText(dmap[j][1]) # NormalizeText(col[i])}

WarningsFor(col_key) == {i \in 1..Len(eng.warnings) : eng.warnings[i].column_key = col_key}

\* the statement of the claim for one column and its definition
UnmappedContract(col_key, type, cfg) ==
    LET dmap == ClaimedDefinitionMap(type, cfg)
        raw == raw_df[col_key]
        bad == UnmappedRows(raw, dmap)
    IN /\ (WarningsFor(col_key) # {}) <=> (bad # {})
       /\ \A w \in WarningsFor(col_key) :
             SeqToSet(eng.warnings[w].unmapped_values) = {StrOf(raw[i]) : i \in bad}
       /\ \A i \in bad : IsNull(eng.df[col_key][i])
       /\ \A i \in 1..Len(raw) :
             (~IsNull(raw[i]) /\ i \notin bad) =>
                 \E j \in 1..Len(dmap) :
                     /\ NormalizeText(dmap[j][1]) = NormalizeText(raw[i])
                     /\ dmap[j][2].k = "num"
                     /\ eng.df[col_key][i] = dmap[j][2]

SmartColumns(type) ==
    {i \in 1..Len(eng.config[type]) : eng.config[type][i][1] \in DOMAIN raw_df}

HasValidMap(cfg) ==
    LET m == DictGet(cfg, "map", Dict(<<>>)) IN m.k = "dict" /\ m.v # <<>>

ConfigKeys(type) == {eng.config[type][i][1] : i \in 1..Len(eng.config[type])}

\* the column keys of the configuration that are no column of the dataframe
AbsentKeys == UNION {ConfigKeys(type) \ DOMAIN raw_df : type \in EncoderTypes}

\* the columns _encode_nominal_multi derives from the column
DerivedColumns(col_key) ==
    LET cats == DictGet(DictGet(eng.config.NominalMulti, col_key, <<>>), "categories",
                        List(<<>>)).v
    IN {SanitizedName(col_key, cats[i]) : i \in 1..Len(cats)}

\* nothing was done for an absent key: no column, no codebook entry and no learned
\* value map has its name, every column is a column of the dataframe or derived from
\* one, and a column without configuration is as it was
AbsentKeysSkipped ==
    /\ \A col_key \in AbsentKeys :
          /\ col_key \notin DOMAIN eng.df
          /\ ~DictHas(eng.codebook, col_key)
          /\ ~DictHas(eng.learned_value_maps, col_key)
          /\ \A name \in DerivedColumns(col_key) :
                name \notin DOMAIN eng.df /\ ~DictHas(eng.codebook, name)
    /\ \A c \in DOMAIN eng.df :
          \/ c \in DOMAIN raw_df
          \/ \E col_key \in DOMAIN raw_df : c \in DerivedColumns(col_key)
    /\ \A c \in DOMAIN raw_df :
          (\A type \in EncoderTypes : c \notin ConfigKeys(type)) =>
              (c \in DOMAIN eng.df /\ eng.df[c] = raw_df[c])

\* the Ordinal item whose order made _encode_ordinal raise
RaisingItems ==
    {i \in 1..Len(eng.config.Ordinal) : OrdinalRaises(eng.config.Ordinal[i][2])}

MaxDefs == 2        \* encoder definitions that exist at one time

Studies == {1, 2}
NoDefinition == 0   \* encoder_definition_id IS NULL

\* rows of encoder_prototypes (seeded at start-up), id -> row
Prototypes ==
    << [name |-> "5-Point Likert", encoder_type |-> "Likert"],
       [name |-> "Yes/No Binary", encoder_type |-> "Binary"],
       [name |-> "Nominal", encoder_type |-> "Nominal"] >>

DefinitionNames == {"A"}

\* the configuration a user types for a new definition of the prototype
FormConfiguration(prototype_id) ==
    IF Prototypes[prototype_id].encoder_type = "Likert"
    THEN <<<<"map", Dict(<<<<Txt(<<"a">>), Num(1)>>>>)>>>>
    ELSE <<>>

\* the question map file of a study: column key -> question text
QuestionMap(study_id) ==
    IF study_id = 1 THEN SubSeq(ColumnMap, 1, 2) ELSE SubSeq(ColumnMap, 1, 1)

\* initialize_columns_for_study for study 1: one ColumnEncoding row per key of its
\* question map; the assign page of study 2 was not opened yet, it has no rows
InitialColumnEncodings ==
    << [study_id |-> 1, column_key |-> Q1, encoder_definition_id |-> NoDefinition],
       [study_id |-> 1, column_key |-> Q2, encoder_definition_id |-> NoDefinition] >>

\* json.dumps followed by json.loads of a configuration: the keys of an object are strings
JsonValue(x) ==
    IF x.k = "dict"
    THEN Dict(DictFromPairs([i \in 1..Len(x.v) |-> <<Txt(StrOf(x.v[i][1])), x.v[i][2]>>]))
    ELSE x
JsonRoundTrip(configuration) ==
    [i \in 1..Len(configuration) |-> <<configuration[i][1], JsonValue(configuration[i][2])>>]

\* mutant: the items are compared without converting the keys to str
SortedItems_RawKeys(value_map) ==
    LET keys == SortedTexts({StrOf(k) : k \in DictKeys(value_map)})
    IN [i \in 1..Len(keys) |->
           LET key == CHOOSE k \in DictKeys(value_map) : StrOf(k) = keys[i]
           IN <<key, DictGet(value_map, key, NULL)>>]

\* sorted({str(k): v for k, v in value_map.items()}.items())
SortedItems(value_map) ==
    LET strd == DictFromPairs([i \in 1..Len(value_map) |->
                                  <<StrOf(value_map[i][1]), value_map[i][2]>>])
        keys == SortedTexts(DictKeys(strd))
    IN [i \in 1..Len(keys) |-> <<keys[i], DictGet(strd, keys[i], NULL)>>]

\* config_map.get(col_key): the row of the study with that column key, 0 when there is none
ColumnConfigOf(cols, study_id, col_key) ==
    IF \E i \in 1..Len(cols) : cols[i].study_id = study_id /\ cols[i].column_key = col_key
    THEN CHOOSE i \in 1..Len(cols) : cols[i].study_id = study_id /\ cols[i].column_key = col_key
    ELSE 0

RECURSIVE UpdateLoop(_, _, _, _)
\* the loop of update_definition_configurations over learned_maps.items(); mem holds the
\* definition objects of the session, raised tells that it ended with ValueError
UpdateLoop(mem, cols, study_id, items) ==
    IF items = <<>> THEN [raised |-> FALSE, mem |-> mem]
    ELSE
      LET col_key == Head(items)[1]
          new_value_map == Head(items)[2]
          cc == ColumnConfigOf(cols, study_id, col_key)
          did == IF cc = 0 THEN NoDefinition ELSE cols[cc].encoder_definition_id
      IN IF did \notin DOMAIN mem THEN UpdateLoop(mem, cols, study_id, Tail(items))
         ELSE
           LET current_config == mem[did].configuration
               existing_map == DictGet(current_config, "value_map", NULL)
           IN IF DictHas(current_config, "value_map") /\ Truthy(existing_map)
              THEN IF SortedItems(existing_map.v) # SortedItems(new_value_map)
                   THEN [raised |-> TRUE, mem |-> mem]
                   ELSE UpdateLoop(mem, cols, study_id, Tail(items))
              ELSE UpdateLoop(
                     [mem EXCEPT ![did].configuration =
                         DictPut(current_config, "value_map", Dict(new_value_map))],
                     cols, study_id, Tail(items))

\* db.session.commit() at the end of update_definition_configurations.  The JSON column
\* is not a mutable type: 'definition.configuration or {}' is the loaded dict itself when
\* that dict is non-empty, so changing it in place and assigning it back leaves the
\* attribute equal to its loaded value and no UPDATE is written; an empty configuration
\* is replaced by a new dict, which is written.
Committed(defs, mem) ==
    [id \in DOMAIN defs |->
        IF defs[id].configuration = <<>> /\ mem[id].configuration # <<>>
        THEN [defs[id] EXCEPT !.configuration = JsonRoundTrip(mem[id].configuration)]
        ELSE defs[id]]

\* EncodingConfigManager.update_definition_configurations
UpdateDefinitionConfigurations(defs, cols, study_id, learned_maps) ==
    IF learned_maps = <<>> THEN [raised |-> FALSE, defs |-> defs]
    ELSE LET r == UpdateLoop(defs, cols, study_id, learned_maps)
         IN IF r.raised THEN [raised |-> TRUE, defs |-> defs]
            ELSE [raised |-> FALSE, defs |-> Committed(defs, r.mem)]

\* mutant: the query does not filter by study
AssignedColumns_AnyStudy(cols, study_id) ==
    {i \in 1..Len(cols) : cols[i].encoder_definition_id # NoDefinition}

\* ids of the rows of a study with a definition assigned, in the order of the query
AssignedColumns(cols, study_id) ==
    {i \in 1..Len(cols) : cols[i].study_id = study_id
                            /\ cols[i].encoder_definition_id # NoDefinition}

RECURSIVE ConfigItems(_, _, _, _, _)
\* the loop of generate_encoder_class_config for one prototype type, rows 1..n
ConfigItems(defs, cols, study_id, type, n) ==
    IF n = 0 THEN <<>>
    ELSE LET rest == ConfigItems(defs, cols, study_id, type, n - 1)
         IN IF n \in AssignedColumns(cols, study_id)
               /\ Prototypes[defs[cols[n].encoder_definition_id].prototype_id].encoder_type = type
            THEN DictPut(rest, cols[n].column_key, defs[cols[n].encoder_definition_id].configuration)
            ELSE rest

\* EncodingConfigManager.generate_encoder_class_config; config.encoder_definition is None
\* for a row whose definition does not exist, and reading its prototype raises
GenerateEncoderClassConfig(defs, cols, study_id) ==
    IF \E i \in AssignedColumns(cols, study_id) : cols[i].encoder_definition_id \notin DOMAIN defs
    THEN [raised |-> TRUE, config |-> <<>>]
    ELSE [raised |-> FALSE,
          config |-> [t \in EncoderTypes |-> ConfigItems(defs, cols, study_id, t, Len(cols))]
                        @@ [column_map |-> QuestionMap(study_id)]]

\* json.dump(codebook_dictionary): the integer keys of the value maps become strings
CodebookFile(codebook) ==
    [i \in 1..Len(codebook) |->
        <<codebook[i][1],
          [codebook[i][2] EXCEPT !.value_map = JsonValue(Dict(codebook[i][2].value_map)).v]>>]

NoFile == [exists |-> FALSE, df |-> <<>>, codebook |-> <<>>]

\* the outcome of the handler run_encoding for a study in the present state
RunEncodingOutcome(study_id) ==
    IF ~sim_df[study_id].exists
    THEN [category |-> "no_file", warnings |-> <<>>, defs |-> definitions,
          out |-> outputs[study_id]]
    ELSE
      LET gen == GenerateEncoderClassConfig(definitions, column_encodings, study_id)
      IN IF gen.raised
         THEN [category |-> "critical", warnings |-> <<>>, defs |-> definitions,
               out |-> outputs[study_id]]
         ELSE
           LET engine == Encode(NewDataEncoder(sim_df[study_id].df, gen.config))
               upd == UpdateDefinitionConfigurations(definitions, column_encodings, study_id,
                                                     engine.learned_value_maps)
           IN IF upd.raised
              THEN [category |-> "compatibility", warnings |-> <<>>, defs |-> definitions,
                    out |-> outputs[study_id]]
              ELSE [category |-> IF engine.warnings # <<>> THEN "warning" ELSE "success",
                    warnings |-> engine.warnings, defs |-> upd.defs,
                    out |-> [exists |-> TRUE, df |-> engine.df,
                             codebook |-> CodebookFile(engine.codebook)]]

\* the flashed category of a request that redirects to the definitions or the assign page
Flash(route, category) ==
    [route |-> route, study_id |-> 0, category |-> category, warnings |-> <<>>]

\* a new row gets the rowid after the largest one in the table
NextId(table) == IF DOMAIN table = {} THEN 1 ELSE 1 + CHOOSE m \in DOMAIN table : \A i \in DOMAIN table : i <= m

\* route create_definition with EncodingConfigManager.create_encoder_definition
create_definition(study_id, prototype_id, definition_name, valid_json) ==
    /\ NextId(definitions) <= MaxDefs
    /\ IF ~valid_json
          \/ \E d \in DOMAIN definitions : /\ definitions[d].study_id = study_id
                                            /\ definitions[d].name = definition_name
       THEN /\ response' = Flash("create_definition", "danger")
            /\ UNCHANGED definitions
       ELSE /\ definitions' = definitions @@
                 (NextId(definitions) :>
                     [study_id |-> study_id, prototype_id |-> prototype_id,
                      name |-> definition_name,
                      configuration |-> FormConfiguration(prototype_id)])
            /\ response' = Flash("create_definition", "success")
    /\ UNCHANGED <<column_encodings, sim_df, outputs, NotDb>>

\* route assign_definition with EncodingConfigManager.assign_encoder_to_columns
assign_definition(column_ids, definition_id) ==
    /\ IF column_ids = {}
       THEN /\ response' = Flash("assign_definition", "danger")
            /\ UNCHANGED column_encodings
       ELSE /\ column_encodings' =
                 [i \in 1..Len(column_encodings) |->
                     IF i \in column_ids
                     THEN [column_encodings[i] EXCEPT !.encoder_definition_id = definition_id]
                     ELSE column_encodings[i]]
            /\ response' = Flash("assign_definition", "success")
    /\ UNCHANGED <<definitions, sim_df, outputs, NotDb>>

\* route delete_definition with EncodingConfigManager.delete_encoder_definition
delete_definition(definition_id) ==
    /\ IF definition_id \notin DOMAIN definitions
          \/ \E i \in 1..Len(column_encodings) :
                column_encodings[i].encoder_definition_id = definition_id
       THEN /\ response' = Flash("delete_definition", "danger")
            /\ UNCHANGED definitions
       ELSE /\ definitions' = [d \in DOMAIN definitions \ {definition_id} |-> definitions[d]]
            /\ response' = Flash("delete_definition", "success")
    /\ UNCHANGED <<column_encodings, sim_df, outputs, NotDb>>

\* route run_encoding: the whole handler
run_encoding(study_id) ==
    LET r == RunEncodingOutcome(study_id)
    IN /\ definitions' = r.defs
       /\ outputs' = [outputs EXCEPT ![study_id] = r.out]
       /\ response' = [route |-> "run_encoding", study_id |-> study_id,
                       category |-> r.category, warnings |-> r.warnings]
       /\ UNCHANGED <<column_encodings, sim_df, NotDb>>

\* the columns of the simulated file of study 1
SimColumn1 ==
    { [i \in 1..MaxRows |-> NULL],
      [i \in 1..MaxRows |-> IF i = 1 THEN Txt(<<"a">>) ELSE Txt(<<"n">>)],
      [i \in 1..MaxRows |-> IF i = 1 THEN Txt(<<"a">>) ELSE NULL] }
SimColumn2 ==
    { [i \in 1..MaxRows |-> IF i = 1 THEN Txt(<<"a">>) ELSE Txt(<<"n">>)] }

\* the state after the studies, their question maps and their column rows were created;
\* study 1 has a simulated file, study 2 has none
InitDb ==
    /\ definitions = <<>>
    /\ column_encodings = InitialColumnEncodings
    /\ \E c1 \in SimColumn1, c2 \in SimColumn2 :
          sim_df = [s \in Studies |->
                       IF s = 1 THEN [exists |-> TRUE, df |-> [c \in {Q1, Q2} |-> IF c = Q1 THEN c1 ELSE c2]]
                       ELSE [exists |-> FALSE, df |-> <<>>]]
    /\ outputs = [s \in Studies |-> NoFile]
    /\ response = NoResponse
    /\ EncIdle
    /\ WsIdle
    /\ BootIdle
    /\ MapIdle
    /\ ProtoIdle
    /\ CodeIdle
    /\ AnaIdle
    /\ AclIdle

NextDb ==
    \/ \E s \in Studies, p \in 1..Len(Prototypes), n \in DefinitionNames, v \in BOOLEAN :
          create_definition(s, p, n, v)
    \/ \E ids \in SUBSET (1..Len(InitialColumnEncodings)), d \in 1..MaxDefs :
          assign_definition(ids, d)
    \/ \E d \in 1..MaxDefs : delete_definition(d)
    \/ \E s \in Studies : run_encoding(s)

SpecDb == InitDb /\ [][NextDb]_vars

(***************************************************************************)
(* C2, C3 -- learning value maps                                           *)
(***************************************************************************)
RanEncoding(study_id) ==
    /\ response.route = "run_encoding"
    /\ response.study_id = study_id

\* C2 as stated: when run_encoding has completed for a study and is called again
\* with the same simulated data and the same assignments, the second
\* update_definition_configurations does not raise and every definition keeps
\* the configuration the first call left.
C2_AsStated ==
    \A s \in Studies :
        (RanEncoding(s) /\ response.category \in {"success", "warning"}) =>
            /\ RunEncodingOutcome(s).category # "compatibility"
            /\ RunEncodingOutcome(s).defs = definitions

\* the value map a definition stores, NULL when it stores none
StoredValueMap(d) == DictGet(definitions[d].configuration, "value_map", NULL)

\* a value map with its keys as strings
StrItems(value_map) == {<<StrOf(value_map[i][1]), value_map[i][2]>> : i \in 1..Len(value_map)}

\* the maps encode() learns for a study whose configuration can be generated
LearnedMaps(study_id) ==
    Encode(NewDataEncoder(sim_df[study_id].df,
           GenerateEncoderClassConfig(definitions, column_encodings, study_id).config)).learned_value_maps

DefinitionOfColumn(study_id, col_key) ==
    LET cc == ColumnConfigOf(column_encodings, study_id, col_key)
    IN IF cc = 0 THEN NoDefinition ELSE column_encodings[cc].encoder_definition_id

\* learned maps whose definition stores a non-empty value map
ItemsWithStoredMap(study_id) ==
    {i \in 1..Len(LearnedMaps(study_id)) :
        LET d == DefinitionOfColumn(study_id, LearnedMaps(study_id)[i][1])
        IN d \in DOMAIN definitions /\ Truthy(StoredValueMap(d))}

DiffersFromStored(study_id, i) ==
    StrItems(StoredValueMap(DefinitionOfColumn(study_id, LearnedMaps(study_id)[i][1])).v)
        # StrItems(LearnedMaps(study_id)[i][2])

CanEncode(study_id) ==
    /\ sim_df[study_id].exists
    /\ ~GenerateEncoderClassConfig(definitions, column_encodings, study_id).raised

\* C3: when a definition stores a non-empty value map and the map learned for one
\* of its columns differs from it (keys compared as strings),
\* update_definition_configurations raises and stores nothing; a definition that
\* stores a non-empty value map is never overwritten; and when every learned map
\* equals the stored one, the call does not raise and changes nothing.
C3_IncompatibleValueMaps ==
    \A s \in Studies : CanEncode(s) =>
        LET upd == UpdateDefinitionConfigurations(definitions, column_encodings, s, LearnedMaps(s))
        IN /\ (\E i \in ItemsWithStoredMap(s) : DiffersFromStored(s, i)) =>
                  (upd.raised /\ upd.defs = definitions)
           /\ \A d \in DOMAIN definitions :
                  Truthy(StoredValueMap(d)) => upd.defs[d] = definitions[d]
           /\ (/\ ItemsWithStoredMap(s) = 1..Len(LearnedMaps(s))
               /\ \A i \in ItemsWithStoredMap(s) : ~DiffersFromStored(s, i)) =>
                  (~upd.raised /\ upd.defs = definitions)

\* run_encoding has answered with the compatibility error for a column whose
\* definition stores a different, non-empty value map
C3_Witness ==
    /\ RanEncoding(1)
    /\ response.category = "compatibility"
    /\ \E i \in ItemsWithStoredMap(1) : DiffersFromStored(1, i)

(***************************************************************************)
(* C4 -- deleting definitions                                              *)
(***************************************************************************)
\* C4 as stated: after any sequence of create, assign and delete operations
\* every non-null encoder_definition_id refers to an existing definition.
C4_AsStated ==
    \A i \in 1..Len(column_encodings) :
        column_encodings[i].encoder_definition_id # NoDefinition =>
            column_encodings[i].encoder_definition_id \in DOMAIN definitions

(***************************************************************************)
(* C12 -- generate_encoder_class_config translates the database state      *)
(***************************************************************************)
\* the rows of the study whose definition exists, with the given column key
RowsWithDefinition(study_id, col_key) ==
    {i \in 1..Len(column_encodings) :
        /\ column_encodings[i].study_id = study_id
        /\ column_encodings[i].column_key = col_key
        /\ column_encodings[i].encoder_definition_id \in DOMAIN definitions}

\* C12: whenever generate_encoder_class_config(study_id) returns, a column key is under
\* an encoder-type key of the result if and only if a row of that study with that key
\* has a definition assigned whose prototype has that encoder_type, its value is the
\* configuration of that definition, and no column key is under two encoder types.
C12_TranslatesDatabase ==
    \A study_id \in Studies :
        LET gen == GenerateEncoderClassConfig(definitions, column_encodings, study_id)
        IN ~gen.raised =>
             \A col_key \in {Q1, Q2, Q3} :
                /\ \A type \in EncoderTypes :
                      /\ DictHas(gen.config[type], col_key) <=>
                            \E i \in RowsWithDefinition(study_id, col_key) :
                                Prototypes[definitions[column_encodings[i].encoder_definition_id]
                                              .prototype_id].encoder_type = type
                      /\ \A i \in RowsWithDefinition(study_id, col_key) :
                            DictHas(gen.config[type], col_key) =>
                               DictGet(gen.config[type], col_key, NULL) =
                                  definitions[column_encodings[i].encoder_definition_id].configuration
                /\ Cardinality({type \in EncoderTypes : DictHas(gen.config[type], col_key)}) <= 1

\* study 1 has a column with a definition and a column without one, and the
\* configuration of both studies can be generated
C12_Witness ==
    /\ RowsWithDefinition(1, Q1) # {}
    /\ column_encodings[2].encoder_definition_id = NoDefinition
    /\ ~GenerateEncoderClassConfig(definitions, column_encodings, 1).raised
    /\ ~GenerateEncoderClassConfig(definitions, column_encodings, 2).raised
    /\ \E type \in EncoderTypes :
          DictHas(GenerateEncoderClassConfig(definitions, column_encodings, 1).config[type], Q1)

(***************************************************************************)
(* WorkspaceManager (file_workspace_mgt.py) and logout (auth_routes.py).   *)
(* Paths are texts; os.path.join, os.path.abspath, str.startswith and      *)
(* werkzeug's secure_filename work on their characters.  Files hold bytes. *)
(* One request is served at a time.  A file operation inside a try block   *)
(* of the code may raise (the block is there for that); os.remove in the   *)
(* handler of save_file and os.makedirs are taken to succeed.              *)
(***************************************************************************)
MaxFiles == 1       \* files the workspaces hold at one time

\* current_app.instance_path
InstancePath == <<"/", "i">>
TempWorkspaces == <<"t", "e", "m", "p", "_", "w", "o", "r", "k", "s", "p", "a", "c", "e", "s">>

\* os.path.join(a, b)
Join(a, b) ==
    IF b # <<>> /\ Head(b) = "/" THEN b
    ELSE IF a = <<>> \/ Last(a) = "/" THEN a \o b
    ELSE a \o <<"/">> \o b

RECURSIVE PathParts(_, _, _)
\* p.split('/'), scanning p once: done holds the finished components, cur the open one
PathParts(p, done, cur) ==
    IF p = <<>> THEN Append(done, cur)
    ELSE IF Head(p) = "/" THEN PathParts(Tail(p), Append(done, cur), <<>>)
    ELSE PathParts(Tail(p), done, Append(cur, Head(p)))

RECURSIVE NormParts(_, _)
\* os.path.normpath on the components of an absolute path: '', '.' and '..'
NormParts(comps, acc) ==
    IF comps = <<>> THEN acc
    ELSE IF Head(comps) = <<>> \/ Head(comps) = <<".">> THEN NormParts(Tail(comps), acc)
    ELSE IF Head(comps) = <<".", ".">>
         THEN NormParts(Tail(comps), IF acc = <<>> THEN acc ELSE Front(acc))
    ELSE NormParts(Tail(comps), Append(acc, Head(comps)))

RECURSIVE JoinParts(_)
JoinParts(parts) ==
    IF parts = <<>> THEN <<>> ELSE <<"/">> \o Head(parts) \o JoinParts(Tail(parts))

\* os.path.abspath of an absolute path
AbsPath(p) ==
    LET parts == NormParts(PathParts(p, <<>>, <<>>), <<>>)
    IN IF parts = <<>> THEN <<"/">> ELSE JoinParts(parts)

\* str.startswith
StartsWith(t, prefix) == Len(t) >= Len(prefix) /\ SubSeq(t, 1, Len(prefix)) = prefix

\* the characters [A-Za-z0-9_.-] of the alphabet of the model
IsFilenameChar(c) ==
    c \in {"a", "c", "e", "i", "k", "m", "o", "p", "r", "s", "t", "w", "x", "y", "P",
           "0", "1", "2", "_", ".", "-"}

RECURSIVE KeepFilenameChars(_)
KeepFilenameChars(t) ==
    IF t = <<>> THEN <<>>
    ELSE IF IsFilenameChar(Head(t)) THEN <<Head(t)>> \o KeepFilenameChars(Tail(t))
    ELSE KeepFilenameChars(Tail(t))

RECURSIVE StripDotUnderscore(_)
\* str.strip("._")
StripDotUnderscore(t) ==
    IF t # <<>> /\ Head(t) \in {".", "_"} THEN StripDotUnderscore(Tail(t))
    ELSE IF t # <<>> /\ Last(t) \in {".", "_"} THEN StripDotUnderscore(Front(t))
    ELSE t

\* werkzeug.utils.secure_filename: separators become blanks, "_".join(split()),
\* every character outside [A-Za-z0-9_.-] is dropped, then strip("._")
SecureFilename(name) ==
    LET spaced == [i \in 1..Len(name) |-> IF name[i] = "/" THEN " " ELSE name[i]]
        words == Strip(CollapseWs(spaced))
        joined == [i \in 1..Len(words) |-> IF words[i] = " " THEN "_" ELSE words[i]]
    IN StripDotUnderscore(KeepFilenameChars(joined))

BaseDir == AbsPath(Join(InstancePath, TempWorkspaces))

\* WorkspaceManager._get_workspace_root
GetWorkspaceRoot(user_id, project_code) ==
    IF ~Truthy(user_id) \/ project_code = <<>>
    THEN [raised |-> TRUE, path |-> <<>>]
    ELSE LET workspace_path ==
                 AbsPath(Join(Join(BaseDir, StrOf(user_id)), SecureFilename(project_code)))
         IN IF ~StartsWith(workspace_path, BaseDir)
            THEN [raised |-> TRUE, path |-> <<>>]
            ELSE [raised |-> FALSE, path |-> workspace_path]

\* ---- the file system
\* the path the system resolves: a trailing separator names the directory itself
FsPath(p) == IF Len(p) > 1 /\ Last(p) = "/" THEN Front(p) ELSE p

IsDir(p) == FsPath(p) \in fs_dirs
IsFile(p) == FsPath(p) \in DOMAIN fs_files
\* os.path.exists
Exists(p) == IsDir(p) \/ IsFile(p)

\* a path and every directory above it
PathPrefixes(p) ==
    LET parts == NormParts(PathParts(p, <<>>, <<>>), <<>>)
    IN {JoinParts(SubSeq(parts, 1, n)) : n \in 1..Len(parts)}

\* os.makedirs(path)
MakeDirs(dirs, p) == dirs \cup PathPrefixes(p)

Under(q, p) == StartsWith(q, p \o <<"/">>)

\* the files that remain when the tree below p is gone
WithoutTree(files, p) == [q \in {f \in DOMAIN files : ~Under(f, p) /\ f # p} |-> files[q]]

\* content of a file as an optional value: <<>> when there is no such file
ContentOf(files, p) == IF FsPath(p) \in DOMAIN files THEN <<files[FsPath(p)]>> ELSE <<>>

\* the outcomes of shutil.rmtree(p) that raises: p stays, and so does any part of
\* the tree with the directories above it
RmTreeFailures(p) ==
    LET nodes == {d \in fs_dirs : Under(d, p)} \cup {f \in DOMAIN fs_files : Under(f, p)}
    IN {keep \in SUBSET nodes :
           \A n \in keep : \A d \in PathPrefixes(n) : Under(d, p) => d \in keep}

\* ---- bytes and text
\* str.encode('utf-8') of one character of the alphabet
Utf8Char(c) == <<Ord(c)>>

RECURSIVE Utf8Encode(_)
Utf8Encode(t) == IF t = <<>> THEN <<>> ELSE Utf8Char(Head(t)) \o Utf8Encode(Tail(t))

\* chr(code) for the code points that occur
Chr(n) ==
    CASE n = 10 -> "\n" [] n = 13 -> "\r" [] n = 120 -> "x" [] n = 121 -> "y"
      [] n = 233 -> "e'" [] OTHER -> "?"

RECURSIVE Utf8Valid(_)
\* bytes.decode('utf-8') succeeds: one-byte and two-byte sequences
Utf8Valid(b) ==
    IF b = <<>> THEN TRUE
    ELSE IF Head(b) < 128 THEN Utf8Valid(Tail(b))
    ELSE IF Head(b) \in 194..223 /\ Len(b) >= 2 /\ b[2] \in 128..191 THEN Utf8Valid(Tail(Tail(b)))
    ELSE FALSE

RECURSIVE Utf8Decode(_)
Utf8Decode(b) ==
    IF b = <<>> THEN <<>>
    ELSE IF Head(b) < 128 THEN <<Chr(Head(b))>> \o Utf8Decode(Tail(b))
    ELSE <<Chr((Head(b) - 192) * 64 + (b[2] - 128))>> \o Utf8Decode(Tail(Tail(b)))

\* bytes.decode('latin1')
Latin1Decode(b) == [i \in 1..Len(b) |-> Chr(b[i])]

RECURSIVE UniversalNewlines(_)
\* open(path, 'r'): '\r\n' and '\r' are read as '\n'
UniversalNewlines(t) ==
    IF t = <<>> THEN <<>>
    ELSE IF Head(t) = "\r"
         THEN <<"\n">> \o UniversalNewlines(IF Len(t) > 1 /\ t[2] = "\n" THEN Tail(Tail(t)) ELSE Tail(t))
         ELSE <<Head(t)>> \o UniversalNewlines(Tail(t))

\* what save_file writes to the .tmp file: FileStorage.save writes the uploaded
\* bytes, f.write of a str encodes it (the platform line separator is '\n')
BytesOf(data) == IF data.k = "upload" THEN data.v ELSE Utf8Encode(data.v)

\* the content a write that raises leaves behind
PartialWrites(bytes) == {SubSeq(bytes, 1, n) : n \in 0..(Len(bytes) - 1)}

\* hashlib.sha256(...).hexdigest(): an ideal hash, one digest per content
Sha256(bytes) == <<"sha256", bytes>>

\* WorkspaceManager.calculate_checksum
CalculateChecksum(files, file_path) == Sha256(files[FsPath(file_path)])

\* ---- requests
Users == {1, 2}
HostileUser == Txt(<<".", ".", "/">> \o TempWorkspaces \o <<"2">>)
P1 == <<"P", "1">>
DotDot == <<".", ".">>
FileA == <<"a">>
Text1 == Txt(<<"x">>)
Text2 == Txt(<<"y", "\r">>)
Upload1 == [k |-> "upload", v |-> <<233>>]

\* <<user_id, project_code>> of a call
Contexts ==
    {<<Num(1), P1>>, <<Num(2), P1>>, <<Num(1), DotDot>>, <<HostileUser, P1>>,
     <<Txt(<<>>), P1>>, <<Num(1), <<>>>>}
FileRequests == {<<c[1], c[2], FileA>> : c \in Contexts} \cup {<<Num(1), P1, DotDot>>}
\* the saves: of the two users into their project, and the ones that raise at once
SaveRequests ==
    {<<c[1], c[2], FileA, t>> :
        c \in {<<Num(1), P1>>, <<Num(2), P1>>, <<Txt(<<>>), P1>>, <<Num(1), <<>>>>},
        t \in {Text1, Text2}}
       \cup {<<Num(1), P1, DotDot, Text1>>, <<Num(1), P1, FileA, Upload1>>}

\* _get_workspace_root for the contexts of the requests
WorkspaceRoots == [c \in Contexts |-> GetWorkspaceRoot(c[1], c[2])]

\* mutant: the new content is written straight into the target file
TempPath_InPlace(target_path) == target_path

\* temp_path = f"{target_path}.tmp"
TempPath(target_path) == target_path \o <<".", "t", "m", "p">>

Return(op, outcome, user_id, project_code, value, touched) ==
    [NoReturn EXCEPT !.op = op, !.outcome = outcome, !.user_id = user_id,
                     !.project_code = project_code, !.value = value, !.touched = touched]

\* what a save_file call reports when it ends
SaveReturn(outcome, checksum) ==
    [op |-> "save_file", outcome |-> outcome, user_id |-> call.user_id,
     project_code |-> call.project_code, value |-> <<>>, checksum |-> checksum,
     target_path |-> call.target_path, temp_path |-> call.temp_path,
     old |-> call.old, data |-> call.data, touched |-> call.touched]

Forget(history, keys) == [q \in DOMAIN history \ keys |-> history[q]]

\* save_file, l.63-69: the workspace, its directory, the two paths
save_file_begin(user_id, project_code, filename, data) ==
    /\ call.pc = "idle"
    /\ LET root == WorkspaceRoots[<<user_id, project_code>>]
           target_path == Join(root.path, SecureFilename(filename))
       IN IF root.raised
          THEN /\ ret' = Return("save_file", "SecurityException", user_id, project_code, <<>>, {})
               /\ UNCHANGED <<fs_dirs, call, saved>>
          ELSE /\ Cardinality(DOMAIN fs_files) < MaxFiles \/ IsFile(target_path)
               /\ fs_dirs' = IF Exists(root.path) THEN fs_dirs ELSE MakeDirs(fs_dirs, root.path)
               /\ call' = [pc |-> "write", user_id |-> user_id, project_code |-> project_code,
                           filename |-> filename, data |-> data, target_path |-> target_path,
                           temp_path |-> TempPath(target_path),
                           old |-> ContentOf(fs_files, target_path), touched |-> {root.path}]
               /\ ret' = NoReturn
               /\ saved' = Forget(saved, {<<user_id, project_code, filename>>})
    /\ UNCHANGED <<fs_files, NotWs>>

\* save_file, l.73-77: write the .tmp file; a write that raises leaves a part of it
save_file_write ==
    /\ call.pc = "write"
    /\ IF IsDir(call.temp_path)
       THEN /\ call' = [call EXCEPT !.pc = "except", !.touched = @ \cup {call.temp_path}]
            /\ UNCHANGED fs_files
       ELSE \/ /\ fs_files' = (FsPath(call.temp_path) :> BytesOf(call.data)) @@ fs_files
               /\ call' = [call EXCEPT !.pc = "replace", !.touched = @ \cup {call.temp_path}]
            \/ \E part \in PartialWrites(BytesOf(call.data)) :
                  /\ fs_files' = (FsPath(call.temp_path) :> part) @@ fs_files
                  /\ call' = [call EXCEPT !.pc = "except", !.touched = @ \cup {call.temp_path}]
    /\ UNCHANGED <<fs_dirs, ret, saved, NotWs>>

\* save_file, l.80: os.replace(temp_path, target_path)
save_file_replace ==
    /\ call.pc = "replace"
    /\ IF IsDir(call.target_path)
       THEN /\ call' = [call EXCEPT !.pc = "except", !.touched = @ \cup {call.target_path}]
            /\ UNCHANGED fs_files
       ELSE \/ /\ fs_files' =
                    [q \in (DOMAIN fs_files \ {FsPath(call.temp_path)}) \cup {FsPath(call.target_path)} |->
                        IF q = FsPath(call.target_path) THEN fs_files[FsPath(call.temp_path)]
                        ELSE fs_files[q]]
               /\ call' = [call EXCEPT !.pc = "checksum", !.touched = @ \cup {call.target_path}]
            \/ /\ call' = [call EXCEPT !.pc = "except", !.touched = @ \cup {call.target_path}]
               /\ UNCHANGED fs_files
    /\ UNCHANGED <<fs_dirs, ret, saved, NotWs>>

\* save_file, l.83-90: the checksum and the result
save_file_checksum ==
    /\ call.pc = "checksum"
    /\ \/ /\ ret' = SaveReturn("success", <<CalculateChecksum(fs_files, call.target_path)>>)
          /\ call' = NoCall
          /\ saved' = IF call.data.k = "txt"
                      THEN (<<call.user_id, call.project_code, call.filename>> :> call.data.v) @@ saved
                      ELSE saved
       \/ /\ call' = [call EXCEPT !.pc = "except"]
          /\ UNCHANGED <<ret, saved>>
    /\ UNCHANGED <<fs_dirs, fs_files, NotWs>>

\* save_file, l.92-95: remove the .tmp file if it exists and raise again
save_file_except ==
    /\ call.pc = "except"
    /\ fs_files' = IF IsFile(call.temp_path)
                   THEN Forget(fs_files, {FsPath(call.temp_path)})
                   ELSE fs_files
    /\ ret' = SaveReturn("error", <<>>)
    /\ call' = NoCall
    /\ UNCHANGED <<fs_dirs, saved, NotWs>>

\* the outcome of WorkspaceManager.get_file in the present state
GetFileOutcome(user_id, project_code, filename) ==
    LET root == WorkspaceRoots[<<user_id, project_code>>]
        target_path == Join(root.path, SecureFilename(filename))
    IN IF root.raised THEN [outcome |-> "SecurityException", value |-> <<>>, touched |-> {}]
       ELSE IF ~Exists(target_path)
            THEN [outcome |-> "None", value |-> <<>>, touched |-> {target_path}]
       ELSE IF IsDir(target_path)
            THEN [outcome |-> "error", value |-> <<>>, touched |-> {target_path}]
       ELSE LET bytes == fs_files[FsPath(target_path)]
            IN [outcome |-> "text",
                value |-> <<UniversalNewlines(IF Utf8Valid(bytes) THEN Utf8Decode(bytes)
                                              ELSE Latin1Decode(bytes))>>,
                touched |-> {target_path}]

get_file(user_id, project_code, filename) ==
    /\ call.pc = "idle"
    /\ LET r == GetFileOutcome(user_id, project_code, filename)
       IN ret' = Return("get_file", r.outcome, user_id, project_code, r.value, r.touched)
    /\ UNCHANGED <<fs_dirs, fs_files, call, saved, NotWs>>

\* WorkspaceManager.get_file_path
get_file_path(user_id, project_code, filename) ==
    /\ call.pc = "idle"
    /\ LET root == WorkspaceRoots[<<user_id, project_code>>]
           target_path == Join(root.path, SecureFilename(filename))
       IN ret' = IF root.raised
                 THEN Return("get_file_path", "SecurityException", user_id, project_code, <<>>, {})
                 ELSE Return("get_file_path", "path", user_id, project_code,
                             <<target_path>>, {target_path})
    /\ UNCHANGED <<fs_dirs, fs_files, call, saved, NotWs>>

\* WorkspaceManager.init_workspace
init_workspace(user_id, project_code) ==
    /\ call.pc = "idle"
    /\ LET root == WorkspaceRoots[<<user_id, project_code>>]
       IN IF root.raised
          THEN /\ ret' = Return("init_workspace", "SecurityException", user_id, project_code, <<>>, {})
               /\ UNCHANGED fs_dirs
          ELSE /\ fs_dirs' = IF Exists(root.path) THEN fs_dirs ELSE MakeDirs(fs_dirs, root.path)
               /\ ret' = Return("init_workspace", "path", user_id, project_code,
                                <<root.path>>, {root.path})
    /\ UNCHANGED <<fs_files, call, saved, NotWs>>

\* shutil.rmtree(p): it removes the tree, or it raises and leaves p and a part of the tree
RmTree(p, raised) ==
    \/ /\ ~raised
       /\ fs_dirs' = {d \in fs_dirs : ~Under(d, p) /\ d # p}
       /\ fs_files' = WithoutTree(fs_files, p)
    \/ /\ raised
       /\ \E keep \in RmTreeFailures(p) :
             /\ fs_dirs' = {d \in fs_dirs : ~Under(d, p) \/ d \in keep}
             /\ fs_files' = [q \in {f \in DOMAIN fs_files : ~Under(f, p) \/ f \in keep} |-> fs_files[q]]

\* WorkspaceManager.destroy_workspace: every exception is logged and answered with False
destroy_workspace(user_id, project_code) ==
    /\ call.pc = "idle"
    /\ LET root == WorkspaceRoots[<<user_id, project_code>>]
       IN IF root.raised
          THEN /\ ret' = Return("destroy_workspace", "False", user_id, project_code, <<>>, {})
               /\ UNCHANGED <<fs_dirs, fs_files, saved>>
          ELSE IF ~Exists(root.path)
          THEN /\ ret' = Return("destroy_workspace", "False", user_id, project_code, <<>>, {root.path})
               /\ UNCHANGED <<fs_dirs, fs_files, saved>>
          ELSE \E raised \in BOOLEAN :
                 /\ RmTree(root.path, raised)
                 /\ ret' = Return("destroy_workspace", IF raised THEN "False" ELSE "True",
                                  user_id, project_code, <<>>, {root.path})
                 /\ saved' = Forget(saved, {q \in DOMAIN saved :
                                               q[1] = user_id /\ q[2] = project_code})
    /\ UNCHANGED <<call, NotWs>>

\* route logout of the logged-in user with this id: cleanup_user_session, whose result
\* is not looked at, then logout_user() and the flash 'workspace cleared'
logout(id) ==
    /\ call.pc = "idle"
    /\ LET user_dir == Join(BaseDir, StrOf(Num(id)))
       IN /\ IF Exists(user_dir)
             THEN \E raised \in BOOLEAN : RmTree(user_dir, raised)
             ELSE UNCHANGED <<fs_dirs, fs_files>>
          /\ ret' = Return("logout", "completed", Num(id), <<>>, <<>>, {user_dir})
          /\ saved' = Forget(saved, {q \in DOMAIN saved : q[1] = Num(id)})
    /\ UNCHANGED <<call, NotWs>>

InitWs ==
    /\ fs_dirs = {InstancePath}
    /\ fs_files = <<>>
    /\ call = NoCall
    /\ ret = NoReturn
    /\ saved = <<>>
    /\ EncIdle
    /\ DbIdle
    /\ BootIdle
    /\ MapIdle
    /\ ProtoIdle
    /\ CodeIdle
    /\ AnaIdle
    /\ AclIdle

NextWs ==
    \/ \E q \in SaveRequests : save_file_begin(q[1], q[2], q[3], q[4])
    \/ save_file_write
    \/ save_file_replace
    \/ save_file_checksum
    \/ save_file_except
    \/ \E q \in FileRequests : get_file(q[1], q[2], q[3])
    \/ \E q \in FileRequests : get_file_path(q[1], q[2], q[3])
    \/ \E c \in Contexts : init_workspace(c[1], c[2])
    \/ \E c \in Contexts : destroy_workspace(c[1], c[2])
    \/ \E id \in Users : logout(id)

SpecWs == InitWs /\ [][NextWs]_vars

(***************************************************************************)
(* C5 -- the paths of a workspace call                                     *)
(***************************************************************************)
WorkspaceOps == {"save_file", "get_file", "get_file_path", "init_workspace", "destroy_workspace"}

\* p lies below temp_workspaces/<str(user_id)>/<one project directory>
InProjectDirOf(p, user_id) ==
    LET parts == NormParts(PathParts(p, <<>>, <<>>), <<>>)
        base == NormParts(PathParts(BaseDir, <<>>, <<>>), <<>>)
    IN /\ Len(parts) >= Len(base) + 2
       /\ SubSeq(parts, 1, Len(base)) = base
       /\ parts[Len(base) + 1] = StrOf(user_id)

\* C5 as stated (containment): every path that a save_file, get_file, get_file_path,
\* init_workspace or destroy_workspace call uses lies inside temp_workspaces, in the
\* directory of the user and of the project of the call.
C5_AsStated ==
    /\ \A p \in call.touched : InProjectDirOf(p, call.user_id)
    /\ ret.op \in WorkspaceOps => \A p \in ret.touched : InProjectDirOf(p, ret.user_id)

(***************************************************************************)
(* C6 -- atomic write of save_file                                         *)
(***************************************************************************)
Ended(op, outcome) == call.pc = "idle" /\ ret.op = op /\ ret.outcome = outcome

\* the target holds its previous content (or does not exist, as before) or the
\* complete new content at every step of a call, the previous one until the
\* rename; after a call that raised the .tmp file is gone
AtomicWrite ==
    /\ call.pc # "idle" =>
          ContentOf(fs_files, call.target_path) \in {call.old, <<BytesOf(call.data)>>}
    /\ call.pc \in {"write", "replace"} => ContentOf(fs_files, call.target_path) = call.old
    /\ Ended("save_file", "success") =>
          ContentOf(fs_files, ret.target_path) = <<BytesOf(ret.data)>>
    /\ Ended("save_file", "error") => ~IsFile(ret.temp_path)

C7_AsStated ==
    /\ \A q \in DOMAIN saved :
          /\ GetFileOutcome(q[1], q[2], q[3]).outcome = "text"
          /\ GetFileOutcome(q[1], q[2], q[3]).value = <<saved[q]>>
    /\ Ended("save_file", "success") =>
          ret.checksum = <<Sha256(fs_files[FsPath(ret.target_path)])>>

(***************************************************************************)
(* C8 -- logout clears the workspaces of the user                          *)
(***************************************************************************)
\* C8 as stated: when a logout request of a user has completed, no workspace
\* directory or file of that user exists.
C8_AsStated ==
    Ended("logout", "completed") =>
        LET user_dir == Join(BaseDir, StrOf(ret.user_id))
        IN \A p \in fs_dirs \cup DOMAIN fs_files : p # user_dir /\ ~Under(p, user_dir)

(***************************************************************************)
(* DataBootstrapper (ops_bootstrap.py) and the run_bootstrap route         *)
(* (ops_routes.py).  A dataframe is a record of its column keys, in order, *)
(* and its rows; a row is a function from column key to cell.  The index   *)
(* of a dataframe is the position of the row (ignore_index / reset_index). *)
(***************************************************************************)
MaxOriginalRows == 2    \* rows of the original CSV file
MaxNewSize == 2         \* largest new_size of a request

H1 == <<"h1">>
H2 == <<"h2">>
H3 == <<"h3">>
\* the header line of the CSV file
CsvHeaders == <<H1, H2, H3>>

CsvRow(a, b, c) == (H1 :> Num(a)) @@ (H2 :> Num(b)) @@ (H3 :> Num(c))
\* the data lines a CSV file is made of
CsvRows == {CsvRow(1, 1, 1), CsvRow(2, 2, 2), CsvRow(1, 2, 1)}

SeqsUpTo(S, n) == UNION {[1..m -> S] : m \in 0..n}

\* pd.read_csv(self.file_path)
CsvFiles == {[columns |-> CsvHeaders, rows |-> r] : r \in SeqsUpTo(CsvRows, MaxOriginalRows)}

\* the map file: {} or what _create_and_load_map makes of the headers, q<i+1> -> header
MapFiles == {<<>>, <<<<Q1, H1>>, <<Q2, H2>>, <<Q3, H3>>>>}

\* list(self.question_map.keys())
MapKeys(m) == [i \in 1..Len(m) |-> m[i][1]]

ColumnSet(cols) == {cols[i] : i \in 1..Len(cols)}

\* rename_dict = {v: k for k, v in self.question_map.items()}: the key of a header,
\* the last one when two keys have the same header; a header without key stays
RenameOf(m, header) ==
    LET hits == {i \in 1..Len(m) : m[i][2] = header}
    IN IF hits = {} THEN header
       ELSE m[CHOOSE i \in hits : \A j \in hits : j <= i][1]

\* load_data: read_csv, then rename(columns=rename_dict) if the map is not empty
LoadData(csv, m) ==
    IF m = <<>> THEN csv
    ELSE LET cols == [i \in 1..Len(csv.columns) |-> RenameOf(m, csv.columns[i])]
         IN [columns |-> cols,
             rows |-> [r \in 1..Len(csv.rows) |->
                         [c \in ColumnSet(cols) |->
                            csv.rows[r][csv.columns[CHOOSE i \in 1..Len(cols) : cols[i] = c]]]]]

\* df[cols]
Select(df, cols) ==
    [columns |-> cols,
     rows |-> [r \in 1..Len(df.rows) |-> [c \in ColumnSet(cols) |-> df.rows[r][c]]]]

\* mutant: the first column is sampled apart from the other columns
SampleRows_ColumnWise(df, idx) ==
    [columns |-> df.columns,
     rows |-> [i \in 1..Len(idx) |->
                 [c \in ColumnSet(df.columns) |->
                     IF c = df.columns[1] THEN df.rows[idx[i]][c]
                     ELSE df.rows[idx[Len(idx) + 1 - i]][c]]]]

\* DataFrame.sample: the rows at the sampled positions, with a new index
SampleRows(df, idx) ==
    [columns |-> df.columns, rows |-> [i \in 1..Len(idx) |-> df.rows[idx[i]]]]

\* pd.concat([a, b], axis=1) of two frames with the index 0..n-1, or of pd.DataFrame()
\* and a frame
Concat(a, b) ==
    IF a.columns = <<>> THEN b
    ELSE [columns |-> a.columns \o b.columns,
          rows |-> [r \in 1..Len(b.rows) |-> a.rows[r] @@ b.rows[r]]]

\* the integer seeds of the requests: 0 is falsy in 'if random_state:'
Seeds == {0, 7}
\* random_state: None or an integer
RandomStates == {<<>>} \cup {<<s>> : s \in Seeds}
NewSizes == (0 - 1)..MaxNewSize

\* the positions DataFrame.sample(n=size, replace=True, ...) can take:
\* random_state.choice(obj_len, size=size, replace=True)
SampleIndices(obj_len, size) == [1..size -> 1..obj_len]

\* the positions two sample calls on frames of the same length take: with an integer
\* random_state each call makes a new RandomState(seed), which makes the same draws, so
\* both take the same positions; with None both draw from the global generator of numpy,
\* one after the other
SampleIndexPairs(random_state, obj_len, size) ==
    IF random_state = <<>>
    THEN SampleIndices(obj_len, size) \X SampleIndices(obj_len, size)
    ELSE {<<idx, idx>> : idx \in SampleIndices(obj_len, size)}

\* sample raises ValueError: a negative n, or rows wanted of an empty frame
SampleRaises(obj_len, size) == size < 0 \/ (obj_len = 0 /\ size > 0)

\* bootstrap: the dataframes the call can return
BootstrapResults(df, new_size, random_state) ==
    {SampleRows(df, idx) : idx \in SampleIndices(Len(df.rows), new_size)}

\* all_cols.index(col), 1-based; 0 when index raises ValueError
ColumnIndex(all_cols, col) ==
    IF col \in ColumnSet(all_cols)
    THEN CHOOSE i \in 1..Len(all_cols) :
            all_cols[i] = col /\ \A j \in 1..(i - 1) : all_cols[j] # col
    ELSE 0

\* remix_cols = all_cols[start_index : end_index + 1]
RemixCols(all_cols, start_index, end_index) == SubSeq(all_cols, start_index, end_index)

\* fixed_cols = all_cols[:start_index] + all_cols[end_index + 1:]
FixedCols(all_cols, start_index, end_index) ==
    SubSeq(all_cols, 1, start_index - 1) \o SubSeq(all_cols, end_index + 1, Len(all_cols))

\* bootstrap_remix raises ValueError
RemixRaises(df, m, new_size, start_remix_col, end_remix_col) ==
    LET all_cols == MapKeys(m)
        start_index == ColumnIndex(all_cols, start_remix_col)
        end_index == ColumnIndex(all_cols, end_remix_col)
    IN \/ m = <<>>
       \/ start_index = 0
       \/ end_index = 0
       \/ start_index > end_index
       \/ SampleRaises(Len(df.rows), new_size)

\* bootstrap_remix: the dataframes the call can return.  Both sample calls get the
\* same random_state
BootstrapRemixResults(df, m, new_size, start_remix_col, end_remix_col, random_state) ==
    LET all_cols == MapKeys(m)
        start_index == ColumnIndex(all_cols, start_remix_col)
        end_index == ColumnIndex(all_cols, end_remix_col)
        remix_cols == RemixCols(all_cols, start_index, end_index)
        fixed_cols == FixedCols(all_cols, start_index, end_index)
        fixed_part(idx) == IF fixed_cols # <<>> THEN SampleRows(Select(df, fixed_cols), idx)
                           ELSE NoFrame
        random_part(idx) == SampleRows(Select(df, remix_cols), idx)
    IN {Select(Concat(fixed_part(idx[1]), random_part(idx[2])), all_cols) :
            idx \in SampleIndexPairs(random_state, Len(df.rows), new_size)}

BootReturn(op, outcome, new_size, random_state, start_remix_col, end_remix_col) ==
    [op |-> op, outcome |-> outcome, new_size |-> new_size, random_state |-> random_state,
     start_remix_col |-> start_remix_col, end_remix_col |-> end_remix_col]

\* a call that raised, or a request that flashed an error
BootRaise(op, outcome) == BootReturn(op, outcome, 0, <<>>, <<>>, <<>>)

\* the columns a remix request can name: Q1..Q3 and one that the map does not have
RemixColumns == {Q1, Q2, Q3, H1}

(***************************************************************************)
(* The calls                                                               *)
(***************************************************************************)
\* DataBootstrapper.bootstrap.  original_df is not None after __init__ (load_data sets
\* it or raises)
bootstrap(new_size, random_state) ==
    /\ IF SampleRaises(Len(original_df.rows), new_size)
       THEN /\ simulated_df' = simulated_df
            /\ boot' = BootRaise("bootstrap", "ValueError")
       ELSE /\ \E result \in BootstrapResults(original_df, new_size, random_state) :
                  simulated_df' = <<result>>
            /\ boot' = BootReturn("bootstrap", "returned", new_size, random_state, <<>>, <<>>)
    /\ UNCHANGED <<question_map, original_df, NotBoot>>

\* DataBootstrapper.bootstrap_remix
bootstrap_remix(new_size, start_remix_col, end_remix_col, random_state) ==
    /\ IF RemixRaises(original_df, question_map, new_size, start_remix_col, end_remix_col)
       THEN /\ simulated_df' = simulated_df
            /\ boot' = BootRaise("bootstrap_remix", "ValueError")
       ELSE /\ \E result \in BootstrapRemixResults(original_df, question_map, new_size,
                                start_remix_col, end_remix_col, random_state) :
                  simulated_df' = <<result>>
            /\ boot' = BootReturn("bootstrap_remix", "returned", new_size, random_state, start_remix_col, end_remix_col)
    /\ UNCHANGED <<question_map, original_df, NotBoot>>

\* POST /run-bootstrap: random_state = int(form), a DataBootstrapper made of the same
\* files, the call of the bootstrap type, save_simulated_data.  bootstrap_deep_remix is
\* not a method of DataBootstrapper: AttributeError, 'unexpected error'
run_bootstrap(bootstrap_type, new_size, seed, start_remix_col, end_remix_col) ==
    /\ CASE bootstrap_type = "standard" ->
              IF SampleRaises(Len(original_df.rows), new_size)
              THEN /\ simulated_df' = <<>>
                   /\ boot' = BootRaise("run_bootstrap", "Configuration Error")
              ELSE /\ \E result \in BootstrapResults(original_df, new_size, <<seed>>) :
                         simulated_df' = <<result>>
                   /\ boot' = BootReturn("run_bootstrap", "success", new_size, <<seed>>, <<>>, <<>>)
         [] bootstrap_type = "remix" ->
              IF \/ start_remix_col = <<>>
                 \/ end_remix_col = <<>>
                 \/ RemixRaises(original_df, question_map, new_size, start_remix_col,
                                end_remix_col)
              THEN /\ simulated_df' = <<>>
                   /\ boot' = BootRaise("run_bootstrap", "Configuration Error")
              ELSE /\ \E result \in BootstrapRemixResults(original_df, question_map,
                                new_size, start_remix_col, end_remix_col, <<seed>>) :
                         simulated_df' = <<result>>
                   /\ boot' = BootReturn("run_bootstrap", "success", new_size, <<seed>>, start_remix_col, end_remix_col)
         [] OTHER ->
              /\ simulated_df' = <<>>
              /\ boot' = BootRaise("run_bootstrap", "unexpected error")
    /\ UNCHANGED <<question_map, original_df, NotBoot>>

\* DataBootstrapper.__init__ on a CSV file and a map file
InitBoot ==
    /\ question_map \in MapFiles
    /\ \E csv \in CsvFiles : original_df = LoadData(csv, question_map)
    /\ simulated_df = <<>>
    /\ boot = NoBootCall
    /\ EncIdle
    /\ DbIdle
    /\ WsIdle
    /\ MapIdle
    /\ ProtoIdle
    /\ CodeIdle
    /\ AnaIdle
    /\ AclIdle

NextBoot ==
    \/ \E new_size \in NewSizes, random_state \in RandomStates :
          bootstrap(new_size, random_state)
    \/ \E new_size \in NewSizes, start_remix_col \in RemixColumns,
          end_remix_col \in RemixColumns, random_state \in RandomStates :
          bootstrap_remix(new_size, start_remix_col, end_remix_col, random_state)
    \/ \E bootstrap_type \in {"standard", "deep_remix"}, new_size \in NewSizes, seed \in Seeds :
          run_bootstrap(bootstrap_type, new_size, seed, <<>>, <<>>)
    \/ \E new_size \in NewSizes, seed \in Seeds, start_remix_col \in RemixColumns \cup {<<>>},
          end_remix_col \in RemixColumns \cup {<<>>} :
          run_bootstrap("remix", new_size, seed, start_remix_col, end_remix_col)

SpecBoot == InitBoot /\ [][NextBoot]_vars

(***************************************************************************)
(* C9 -- the standard bootstrap resamples full rows                        *)
(***************************************************************************)
FullRowsOf(result, df, new_size) ==
    /\ Len(result.rows) = new_size
    /\ result.columns = df.columns
    /\ \A i \in 1..Len(result.rows) : \E j \in 1..Len(df.rows) : result.rows[i] = df.rows[j]

\* C9: every dataframe that bootstrap(new_size) can return on the original dataset has
\* exactly new_size rows and the columns of the original dataset, and each of its rows
\* is one complete row of the original dataset; the dataframe a bootstrap call has
\* returned is such a one, of the original_df as it still is.
C9_BootstrapFullRows ==
    /\ \A new_size \in NewSizes, random_state \in RandomStates :
          ~SampleRaises(Len(original_df.rows), new_size) =>
              \A result \in BootstrapResults(original_df, new_size, random_state) :
                  FullRowsOf(result, original_df, new_size)
    /\ boot.op = "bootstrap" /\ boot.outcome = "returned" =>
          /\ simulated_df # <<>>
          /\ FullRowsOf(simulated_df[1], original_df, boot.new_size)

\* a bootstrap of a dataset with two different rows has returned two rows, the same
\* original row twice
C9_Witness ==
    /\ boot.op = "bootstrap"
    /\ boot.outcome = "returned"
    /\ boot.new_size = 2
    /\ Len(original_df.rows) = 2
    /\ original_df.rows[1] # original_df.rows[2]
    /\ simulated_df # <<>>
    /\ simulated_df[1].rows[1] = original_df.rows[2]
    /\ simulated_df[1].rows[2] = original_df.rows[2]

(***************************************************************************)
(* C10 -- bootstrap_remix                                                  *)
(***************************************************************************)
\* the values of the row in the columns
Part(row, cols) == [c \in ColumnSet(cols) |-> row[c]]

\* the row has the fixed-column values of one original row and the remix-column values
\* of a different original row, and is no row of the original
MixedRow(row, df, fixed_cols, remix_cols) ==
    /\ \E j, k \in 1..Len(df.rows) :
          /\ j # k
          /\ Part(row, fixed_cols) = Part(df.rows[j], fixed_cols)
          /\ Part(row, remix_cols) = Part(df.rows[k], remix_cols)
    /\ \A m \in 1..Len(df.rows) : row # df.rows[m]

\* two rows of the original can be combined to a row that the original does not have
Mixable(df, fixed_cols, remix_cols) ==
    \E j, k \in 1..Len(df.rows) :
        \A m \in 1..Len(df.rows) :
            \/ Part(df.rows[m], fixed_cols) # Part(df.rows[j], fixed_cols)
            \/ Part(df.rows[m], remix_cols) # Part(df.rows[k], remix_cols)

\* a bootstrap_remix call, made directly or by the run_bootstrap route, has returned
RemixReturned ==
    /\ boot.start_remix_col # <<>>
    /\ \/ boot.op = "bootstrap_remix" /\ boot.outcome = "returned"
       \/ boot.op = "run_bootstrap" /\ boot.outcome = "success"

\* C10 as stated: when bootstrap_remix has returned, for any random_state, None or an
\* integer, the result has new_size rows whose values within the fixed part and within
\* the remix part (start_remix_col to end_remix_col, in question-map order) come from a
\* single original row each; and if the slice leaves a fixed column and the rows of the
\* dataset can be combined to a new row, some result that the call could return has
\* a row with the fixed-column values of one original row and the remix-column values of
\* a different original row.
C10_AsStated ==
    RemixReturned =>
        LET all_cols == MapKeys(question_map)
            start_index == ColumnIndex(all_cols, boot.start_remix_col)
            end_index == ColumnIndex(all_cols, boot.end_remix_col)
            remix_cols == RemixCols(all_cols, start_index, end_index)
            fixed_cols == FixedCols(all_cols, start_index, end_index)
            result == simulated_df[1]
        IN /\ Len(result.rows) = boot.new_size
           /\ result.columns = all_cols
           /\ \A i \in 1..Len(result.rows) :
                 /\ \E j \in 1..Len(original_df.rows) :
                       Part(result.rows[i], fixed_cols) = Part(original_df.rows[j], fixed_cols)
                 /\ \E k \in 1..Len(original_df.rows) :
                       Part(result.rows[i], remix_cols) = Part(original_df.rows[k], remix_cols)
           /\ (boot.new_size > 0 /\ fixed_cols # <<>>
                  /\ Mixable(original_df, fixed_cols, remix_cols)) =>
                 \E other \in BootstrapRemixResults(original_df, question_map, boot.new_size,
                                 boot.start_remix_col, boot.end_remix_col, boot.random_state) :
                     \E i \in 1..Len(other.rows) :
                         MixedRow(other.rows[i], original_df, fixed_cols, remix_cols)

(***************************************************************************)
(* The question map file of a study: DataBootstrapper.__init__             *)
(* (ops_bootstrap.py), the upload of the CSV file (create_study) and       *)
(* recreate_map (ops_routes.py)                                            *)
(***************************************************************************)
MaxConstructions == 3   \* constructions of a DataBootstrapper that the history counts

\* the header lines an uploaded CSV file can have
HeaderLines == {<<H1>>, <<H1, H2>>, <<H2, H1>>, <<H1, H2, H3>>}

\* f"q{i+1}" of enumerate(original_headers), counted from 1
QKey(i) == CASE i = 1 -> Q1 [] i = 2 -> Q2 [] OTHER -> Q3

\* new_map = {f"q{i+1}": header for i, header in enumerate(original_headers)}
NewMap(original_headers) ==
    [i \in 1..Len(original_headers) |-> <<QKey(i), original_headers[i]>>]

\* json.dump(new_map, f, indent=2): a JSON object of text keys and text values, in
\* the order of the dict
JsonDumpMap(m) == [k |-> "json", v |-> m]

\* json.load(f) of such a file: the dict in the order of the file
JsonLoadMap(content) == content.v

\* mutant: the map file is never found
MapFileExists_Never(file) == FALSE

\* os.path.exists(self.map_path)
MapFileExists(file) == file # <<>>

\* the question_map and the map file after __init__: _load_question_map or
\* _create_and_load_map
ConstructedMap(file, headers) ==
    IF MapFileExists(file)
    THEN [question_map |-> JsonLoadMap(file[1]), file |-> file]
    ELSE [question_map |-> NewMap(headers), file |-> <<JsonDumpMap(NewMap(headers))>>]

\* DataBootstrapper(file_path, map_path): the map is loaded or created, then load_data
\* reads the CSV file
NewDataBootstrapper ==
    /\ csv_file # <<>>
    /\ LET new == ConstructedMap(map_file, csv_file)
           entry == [question_map |-> new.question_map, content |-> new.file[1],
                     headers |-> csv_file, n |-> 1]
       IN /\ map_file' = new.file
          /\ made' = [outcome |-> "constructed", question_map |-> new.question_map]
          /\ first_made' = IF first_made = <<>> THEN <<entry>> ELSE first_made
          /\ kept' = IF kept = <<>> THEN <<entry>>
                     ELSE IF kept[1].n < MaxConstructions
                          THEN <<[kept[1] EXCEPT !.n = @ + 1]>>
                          ELSE kept
    /\ UNCHANGED <<csv_file, NotMap>>

\* create_study: uploaded_file.save(csv_path), the CSV file of the study is written
upload_csv(headers) ==
    /\ csv_file' = headers
    /\ made' = NoBootstrapper
    /\ UNCHANGED <<map_file, first_made, kept, NotMap>>

\* POST /recreate_map: the map file is removed if it exists
recreate_map ==
    /\ map_file' = <<>>
    /\ kept' = <<>>
    /\ made' = NoBootstrapper
    /\ UNCHANGED <<csv_file, first_made, NotMap>>

InitMap ==
    /\ csv_file = <<>>
    /\ map_file = <<>>
    /\ made = NoBootstrapper
    /\ first_made = <<>>
    /\ kept = <<>>
    /\ EncIdle
    /\ DbIdle
    /\ WsIdle
    /\ BootIdle
    /\ ProtoIdle
    /\ CodeIdle
    /\ AnaIdle
    /\ AclIdle

NextMap ==
    \/ NewDataBootstrapper
    \/ \E headers \in HeaderLines : upload_csv(headers)
    \/ recreate_map

SpecMap == InitMap /\ [][NextMap]_vars

(***************************************************************************)
(* C11 -- the question map is created once                                 *)
(***************************************************************************)
Constructed == made.outcome = "constructed"

MaxFilePrototypes == 2   \* [[prototypes]] tables of config.toml

Prototype(name, encoder_type, description) ==
    [name |-> name, encoder_type |-> encoder_type, description |-> description]

\* the tables an administrator writes into config.toml
PrototypeEntries ==
    {Prototype("A", "Likert", "d1"), Prototype("A", "Ordinal", "d1"),
     Prototype("A", "Likert", "d2"), Prototype("B", "Binary", "d1")}

\* the states of config.toml; a missing or unreadable file reads as no prototypes
ConfigFiles == SeqsUpTo(PrototypeEntries, MaxFilePrototypes)

\* AppConfig.get_encoder_prototypes: the file is read only while _prototypes is None
GetEncoderPrototypes(cache, file) == IF cache = <<>> THEN file ELSE cache[1]

\* existing_names = [p.name for p in EncoderPrototype.query.all()]
ExistingNames(table) == {table[i].name : i \in 1..Len(table)}

\* new_prototypes_to_add: the entries of the data whose name is not an existing name
RECURSIVE NewPrototypesToAdd(_, _)
NewPrototypesToAdd(data, existing_names) ==
    IF data = <<>> THEN <<>>
    ELSE LET rest == NewPrototypesToAdd(Front(data), existing_names)
         IN IF Last(data).name \notin existing_names THEN Append(rest, Last(data)) ELSE rest

\* mutant: the name column is not unique
UniqueViolation_Off(rows) == FALSE

\* name = db.Column(db.String(100), unique=True): the commit raises IntegrityError
UniqueViolation(rows) ==
    \E i, j \in 1..Len(rows) : i # j /\ rows[i].name = rows[j].name

\* EncodingConfigManager.seed_prototypes on a table with the data of the configuration
SeedPrototypes(table, data) ==
    LET new == NewPrototypesToAdd(data, ExistingNames(table))
    IN IF data = <<>> \/ new = <<>>
       THEN [raised |-> FALSE, table |-> table, added |-> 0]
       ELSE IF UniqueViolation(table \o new)
            THEN [raised |-> TRUE, table |-> table, added |-> 0]
            ELSE [raised |-> FALSE, table |-> table \o new, added |-> Len(new)]

\* create_app: a new process (AppConfig._prototypes is None), seed_prototypes; an
\* exception ends the start
create_app ==
    LET data == GetEncoderPrototypes(<<>>, config_file)
        seed == SeedPrototypes(encoder_prototypes, data)
    IN /\ cached_prototypes' = <<data>>
       /\ encoder_prototypes' = seed.table
       /\ app_running' = ~seed.raised
       /\ seeded' = [op |-> "create_app",
                     outcome |-> IF seed.raised THEN "raised" ELSE "started",
                     added |-> seed.added, file |-> config_file]
       /\ UNCHANGED <<config_file, NotProto>>

\* POST /refresh_prototypes
refresh_prototypes ==
    /\ app_running
    /\ LET data == GetEncoderPrototypes(cached_prototypes, config_file)
           seed == SeedPrototypes(encoder_prototypes, data)
       IN /\ cached_prototypes' = <<data>>
          /\ encoder_prototypes' = seed.table
          /\ seeded' = [op |-> "refresh_prototypes",
                        outcome |-> IF seed.raised THEN "danger" ELSE "success",
                        added |-> seed.added, file |-> config_file]
    /\ UNCHANGED <<config_file, app_running, NotProto>>

\* the administrator edits config.toml
edit_config(file) ==
    /\ file # config_file
    /\ config_file' = file
    /\ UNCHANGED <<cached_prototypes, encoder_prototypes, app_running, seeded, NotProto>>

InitProto ==
    /\ config_file \in ConfigFiles
    /\ cached_prototypes = <<>>
    /\ encoder_prototypes = <<>>
    /\ app_running = FALSE
    /\ seeded = NoSeeding
    /\ EncIdle
    /\ DbIdle
    /\ WsIdle
    /\ BootIdle
    /\ MapIdle
    /\ CodeIdle
    /\ AnaIdle
    /\ AclIdle

NextProto ==
    \/ create_app
    \/ refresh_prototypes
    \/ \E file \in ConfigFiles : edit_config(file)

SpecProto == InitProto /\ [][NextProto]_vars

(***************************************************************************)
(* C13 -- seed_prototypes is idempotent                                    *)
(***************************************************************************)
\* C13: in every state of the table, for every prototype data, a second seed_prototypes
\* with the same data leaves the table as the first call left it, and no two rows of
\* the table have the same name.
C13_SeedIdempotent ==
    /\ \A data \in ConfigFiles :
          LET first == SeedPrototypes(encoder_prototypes, data)
              second == SeedPrototypes(first.table, data)
          IN /\ second.table = first.table
             /\ second.added = 0
    /\ \A i, j \in 1..Len(encoder_prototypes) :
          i # j => encoder_prototypes[i].name # encoder_prototypes[j].name

\* a refresh has found all the prototypes of the file in the table and added nothing
C13_Witness ==
    /\ seeded.op = "refresh_prototypes"
    /\ seeded.outcome = "success"
    /\ seeded.added = 0
    /\ Len(encoder_prototypes) = 2
    /\ Len(cached_prototypes[1]) = 2

(***************************************************************************)
(* C14 -- refresh_prototypes synchronizes with the configuration file      *)
(***************************************************************************)
\* C14 as stated: after a refresh_prototypes request has reported success, every
\* prototype of config.toml as it was at the time of the request is a row of the
\* table with the encoder_type and the description of the file.
C14_AsStated ==
    (seeded.op = "refresh_prototypes" /\ seeded.outcome = "success") =>
        \A i \in 1..Len(seeded.file) :
            \E r \in 1..Len(encoder_prototypes) :
                /\ encoder_prototypes[r].name = seeded.file[i].name
                /\ encoder_prototypes[r].encoder_type = seeded.file[i].encoder_type
                /\ encoder_prototypes[r].description = seeded.file[i].description

(***************************************************************************)
(* User.generate_user_code and Study.generate_project_code                 *)
(* (app_database/encoder_models.py).  A code is a text; the query is       *)
(* LIKE on the code column, ordered by the code, descending, first row.    *)
(***************************************************************************)
MaxCodeCalls == 3          \* calls of each generator
PriorProjectCount == 998   \* project codes of the date that earlier calls have stored
UserSeqWidth == 4          \* {new_seq:04d}
ProjectSeqWidth == 3       \* {new_seq:03d}

\* datetime.utcnow().year and .strftime('%Y%m%d') of the day of the calls
YearText == <<"2", "0", "2", "5">>
DateText == <<"2", "0", "2", "5", "1", "1", "0", "2">>

\* users.username by user id; register takes any username that is not taken
Usernames == <<<<"a", "n">>, <<"A", "b">>, <<"b">>, <<"%", "x">>>>

\* str.upper() of a character
UpperChar(c) == CASE c = "a" -> "A" [] c = "b" -> "B" [] c = "x" -> "X" [] OTHER -> c

RECURSIVE ZeroPad(_, _)
\* f"{n:0<width>d}": at least width digits
ZeroPad(t, width) == IF Len(t) >= width THEN t ELSE ZeroPad(<<"0">> \o t, width)

FormatSeq(n, width) == ZeroPad(StrOfNat(n), width)

IsDigit(c) == c \in {"0", "1", "2", "3", "4", "5", "6", "7", "8", "9"}

RECURSIVE IntOf(_)
\* int(text) of a text of digits; -1 stands for ValueError
IntOf(t) ==
    IF t = <<>> \/ \E i \in 1..Len(t) : ~IsDigit(t[i]) THEN 0 - 1
    ELSE IF Len(t) = 1 THEN Ord(t[1]) - 48
    ELSE 10 * IntOf(Front(t)) + (Ord(Last(t)) - 48)

\* code.split('-')[-1]
LastPart(code) == Last(Split(code, "-"))

RECURSIVE Like(_, _)
\* text LIKE pattern in SQLite: % is any text, _ is any character, letters compare
\* without case
Like(text, pattern) ==
    IF pattern = <<>> THEN text = <<>>
    ELSE IF Head(pattern) = "%"
         THEN Like(text, Tail(pattern)) \/ (text # <<>> /\ Like(Tail(text), pattern))
    ELSE IF text = <<>> THEN FALSE
    ELSE /\ \/ Head(pattern) = "_"
            \/ UpperChar(Head(text)) = UpperChar(Head(pattern))
         /\ Like(Tail(text), Tail(pattern))

RECURSIVE LastOf(_, _, _)
\* the greatest text of column[lo..hi]
LastOf(column, lo, hi) ==
    IF lo = hi THEN column[lo]
    ELSE LET mid == (lo + hi) \div 2
             a == LastOf(column, lo, mid)
             b == LastOf(column, mid + 1, hi)
         IN IF StrLess(a, b) THEN b ELSE a

\* query.filter(code.like(pattern)).order_by(code.desc()).first(): <<>> is None
LastLike(column, pattern) ==
    LET hits == SelectSeq(column, LAMBDA code : Like(code, pattern))
    IN IF hits = <<>> THEN <<>> ELSE <<LastOf(hits, 1, Len(hits))>>

\* f"STU-{year}-%"
UserCodePattern(year) == <<"S", "T", "U", "-">> \o year \o <<"-", "%">>

\* User.generate_user_code on the users table
generate_user_code(column) ==
    LET last_user == LastLike(column, UserCodePattern(YearText))
        new_seq == IF last_user # <<>> THEN IntOf(LastPart(last_user[1])) + 1 ELSE 1
    IN <<"D", "L", "-">> \o YearText \o <<"-">> \o FormatSeq(new_seq, UserSeqWidth)

\* user_initial: 'X' without user, else username[0].upper()
UserInitial(user_id) ==
    IF user_id \in 1..Len(Usernames) THEN UpperChar(Usernames[user_id][1]) ELSE "X"

\* prefix = f"{date_str}-{user_initial}"
ProjectPrefix(user_id) == DateText \o <<"-", UserInitial(user_id)>>

ProjectCodeOf(prefix, seq) == prefix \o <<"-">> \o FormatSeq(seq, ProjectSeqWidth)

\* Study.generate_project_code(user_id) on the studies table
generate_project_code(column, user_id) ==
    LET prefix == ProjectPrefix(user_id)
        last_study == LastLike(column, prefix \o <<"-", "%">>)
        last_seq == IF last_study # <<>> THEN IntOf(LastPart(last_study[1])) ELSE 0
        new_seq == IF last_study # <<>> /\ last_seq >= 0 THEN last_seq + 1 ELSE 1
    IN ProjectCodeOf(prefix, new_seq)

\* unique=True on the code column: the commit of a code that is stored raises
\* IntegrityError and the row is not stored
Store(column, code) ==
    IF \E i \in 1..Len(column) : column[i] = code THEN column ELSE Append(column, code)

\* a user is made: generate_user_code, the code is stored on the user
new_user ==
    /\ Len(user_issued) < MaxCodeCalls
    /\ LET code == generate_user_code(user_codes)
       IN /\ user_issued' = Append(user_issued, code)
          /\ user_codes' = Store(user_codes, code)
    /\ UNCHANGED <<project_codes, project_issued, NotCode>>

\* a study of the user is made: generate_project_code, the code is stored on the study
new_study(user_id) ==
    /\ Len(project_issued) < MaxCodeCalls
    /\ LET code == generate_project_code(project_codes, user_id)
       IN /\ project_issued' = Append(project_issued, code)
          /\ project_codes' = Store(project_codes, code)
    /\ UNCHANGED <<user_codes, user_issued, NotCode>>

\* the studies table holds the codes that n earlier calls of the day for users with
\* the initial A have stored
InitCode ==
    /\ user_codes = <<>>
    /\ \E n \in {0, PriorProjectCount} :
          project_codes = [i \in 1..n |-> ProjectCodeOf(DateText \o <<"-", "A">>, i)]
    /\ user_issued = <<>>
    /\ project_issued = <<>>
    /\ EncIdle
    /\ DbIdle
    /\ WsIdle
    /\ BootIdle
    /\ MapIdle
    /\ ProtoIdle
    /\ AnaIdle
    /\ AclIdle

NextCode ==
    \/ new_user
    \/ \E user_id \in 0..Len(Usernames) : new_study(user_id)

SpecCode == InitCode /\ [][NextCode]_vars

(***************************************************************************)
(* C15 -- generate_user_code: unique, incremental                          *)
(***************************************************************************)
\* C15 as stated: the codes that the calls of generate_user_code within one year have
\* returned, each stored on a user before the next call, are pairwise distinct, and
\* the sequence number of each call is one more than that of the call before.
C15_AsStated ==
    /\ \A i, j \in 1..Len(user_issued) : i # j => user_issued[i] # user_issued[j]
    /\ \A i \in 2..Len(user_issued) :
          IntOf(LastPart(user_issued[i])) = IntOf(LastPart(user_issued[i - 1])) + 1

(***************************************************************************)
(* C16 -- generate_project_code: unique per date                           *)
(***************************************************************************)
\* the date-and-initial prefix of a code
PrefixOf(code) == SubSeq(code, 1, Len(DateText) + 2)

\* C16 as stated: the codes that the calls of generate_project_code on one date have
\* returned, each stored on a study before the next call, are pairwise distinct, and
\* for each date-and-initial prefix the sequence number of a call is one more than
\* that of the call before with the prefix.
C16_AsStated ==
    /\ \A i, j \in 1..Len(project_issued) : i # j => project_issued[i] # project_issued[j]
    /\ \A i, j \in 1..Len(project_issued) :
          (/\ i < j
           /\ PrefixOf(project_issued[i]) = PrefixOf(project_issued[j])
           /\ \A k \in (i + 1)..(j - 1) :
                 PrefixOf(project_issued[k]) # PrefixOf(project_issued[i]))
          => IntOf(LastPart(project_issued[j])) = IntOf(LastPart(project_issued[i])) + 1

(***************************************************************************)
(* AnalysisManager and the analysis routes dashboard and create_composite. *)
(* The data of a manager is modelled by its columns, in order.             *)
(***************************************************************************)
MaxOperations == 2     \* operations kept in the session for one study

\* the columns of an encoded CSV file
EncodedColumns == <<Q1, Q2>>
C1Name == <<"c1">>
C2Name == <<"c2">>
\* new_var_name of the form: a new name, the name of a column, nothing
NewVarNames == {C1Name, C2Name, Q1, <<>>}
\* source_vars of the form
SourceVars == {<<>>, <<Q1, Q2>>, <<C1Name>>}

\* f"analysis_ops_{study_id}"
OpsSessionKey(study_id) == <<"analysis_ops_">> \o StrOfNat(study_id)

\* f"analysis_data_{study_id}"
DataSessionKey(study_id) == <<"analysis_data_">> \o StrOfNat(study_id)

\* session.pop(key, None)
DictPop(d, key) == SelectSeq(d, LAMBDA item : item[1] # key)

RECURSIVE ApplyOperations(_, _)
\* the loop of _load_and_process_data: df[name] = df[sources].mean(axis=1) for each
\* operation whose name and sources are not empty and whose sources are columns
ApplyOperations(columns, operations) ==
    IF operations = <<>> THEN columns
    ELSE LET df == ApplyOperations(columns, Front(operations))
             op == Last(operations)
         IN IF /\ op.type = "create_composite"
               /\ op.name # <<>>
               /\ op.sources # <<>>
               /\ \A i \in 1..Len(op.sources) : op.sources[i] \in ColumnSet(df)
            THEN IF op.name \in ColumnSet(df) THEN df ELSE Append(df, op.name)
            ELSE df

\* AnalysisManager._load_and_process_data: <<>> is None
LoadAndProcessData(study_id, file, sess) ==
    IF file[study_id] = <<>> THEN <<>>
    ELSE <<ApplyOperations(file[study_id][1], DictGet(sess, OpsSessionKey(study_id), <<>>))>>

\* AnalysisManager(study_id): the study exists (get_or_404)
NewManager(route, study_id, file, sess) ==
    LET data == LoadAndProcessData(study_id, file, sess)
    IN IF data = <<>>
       THEN [route |-> route, study_id |-> study_id, outcome |-> "FileNotFoundError",
             columns |-> <<>>]
       ELSE [route |-> route, study_id |-> study_id, outcome |-> "loaded",
             columns |-> data[1]]

\* GET /analysis/dashboard/<study_id>?reset=1: pop, flash, redirect
dashboard_reset(study_id) ==
    /\ session' = DictPop(session, DataSessionKey(study_id))
    /\ reset_done' = reset_done \cup {study_id}
    /\ manager' = [route |-> "dashboard_reset", study_id |-> study_id, outcome |-> "info",
                   columns |-> <<>>]
    /\ UNCHANGED <<encoded_file, NotAna>>

\* GET /analysis/dashboard/<study_id>
dashboard(study_id) ==
    /\ manager' = NewManager("dashboard", study_id, encoded_file, session)
    /\ UNCHANGED <<session, encoded_file, reset_done, NotAna>>

\* POST /analysis/create_composite/<study_id>
create_composite(study_id, new_var_name, source_vars) ==
    LET m == NewManager("create_composite", study_id, encoded_file, session)
        operations == DictGet(session, OpsSessionKey(study_id), <<>>)
        new_op == [type |-> "create_composite", name |-> new_var_name,
                   sources |-> source_vars]
    IN /\ Len(operations) < MaxOperations
       /\ IF \/ m.outcome # "loaded"
             \/ new_var_name = <<>>
             \/ new_var_name \in ColumnSet(m.columns)
             \/ source_vars = <<>>
          THEN /\ manager' = [m EXCEPT !.outcome = "danger", !.columns = <<>>]
               /\ UNCHANGED <<session, reset_done>>
          ELSE /\ session' = DictPut(session, OpsSessionKey(study_id),
                                     Append(operations, new_op))
               /\ reset_done' = reset_done \ {study_id}
               /\ manager' = [m EXCEPT !.outcome = "success"]
       /\ UNCHANGED <<encoded_file, NotAna>>

\* a new session; the encoded file of a study exists or not
InitAna ==
    /\ session = <<>>
    /\ encoded_file \in [Studies -> {<<>>, <<EncodedColumns>>}]
    /\ manager = NoManager
    /\ reset_done = {}
    /\ EncIdle
    /\ DbIdle
    /\ WsIdle
    /\ BootIdle
    /\ MapIdle
    /\ ProtoIdle
    /\ CodeIdle
    /\ AclIdle

NextAna ==
    \/ \E study_id \in Studies : dashboard_reset(study_id)
    \/ \E study_id \in Studies : dashboard(study_id)
    \/ \E study_id \in Studies, new_var_name \in NewVarNames, source_vars \in SourceVars :
          create_composite(study_id, new_var_name, source_vars)

SpecAna == InitAna /\ [][NextAna]_vars

(***************************************************************************)
(* C17 -- the dashboard reset                                              *)
(***************************************************************************)
\* C17 as stated: when the dashboard was requested with the reset argument for a study
\* and no composite variable was created for it since, the data of the AnalysisManager
\* that the next dashboard request makes for the study has exactly the columns of the
\* encoded CSV file.
C17_AsStated ==
    (manager.route = "dashboard" /\ manager.outcome = "loaded"
        /\ manager.study_id \in reset_done)
    => manager.columns = encoded_file[manager.study_id][1]

(***************************************************************************)
(* The project routes of file_mgt.py and the simulation routes of          *)
(* app_routes.py, by requester.  A study is its row (user_id, name) and    *)
(* the set of its files.                                                   *)
(***************************************************************************)
Anonymous == 0
\* study_name of the update form
StudyNames == {"n1", "n2", "n3"}
\* the files of a study: uploaded CSV, question map, simulated CSV
StudyFiles == {"csv", "map", "simulated"}
\* study ids a request can name: the studies and one that does not exist
RequestedIds == Studies \cup {3}

\* Study.query.get_or_404(study_id)
Found(tbl, study_id) == study_id \in DOMAIN tbl /\ tbl[study_id] # <<>>

OwnerOf(tbl, study_id) == IF Found(tbl, study_id) THEN tbl[study_id][1].user_id ELSE 0

Served(route, study_id, outcome, changed, data) ==
    [route |-> route, requester |-> current_user, study_id |-> study_id,
     owner |-> OwnerOf(studies, study_id), outcome |-> outcome, changed |-> changed,
     data |-> data]

\* what a response shows of a study: its row and its files
StudyData(study_id) == <<studies[study_id][1], project_files[study_id]>>

\* @login_required: an anonymous client is redirected to auth.login
LoginRequired(route, study_id) ==
    /\ current_user = Anonymous
    /\ served' = Served(route, study_id, "login", FALSE, <<>>)
    /\ UNCHANGED <<studies, project_files, current_user>>

NotFound(route, study_id) ==
    /\ ~Found(studies, study_id)
    /\ served' = Served(route, study_id, "404", FALSE, <<>>)
    /\ UNCHANGED <<studies, project_files, current_user>>

\* POST /login with the password of the user, GET /logout
login_user(user_id) ==
    /\ current_user = Anonymous
    /\ current_user' = user_id
    /\ UNCHANGED <<studies, project_files, served, NotAcl>>

logout_user ==
    /\ current_user # Anonymous
    /\ current_user' = Anonymous
    /\ UNCHANGED <<studies, project_files, served, NotAcl>>

\* GET /view_study_results/<study_id> (app_routes.py)
view_study_results(study_id) ==
    /\ \/ LoginRequired("view_study_results", study_id)
       \/ current_user # Anonymous /\ NotFound("view_study_results", study_id)
       \/ /\ current_user # Anonymous
          /\ Found(studies, study_id)
          /\ IF studies[study_id][1].user_id # current_user
             THEN served' = Served("view_study_results", study_id, "Unauthorized", FALSE, <<>>)
             ELSE served' = Served("view_study_results", study_id, "ok", FALSE,
                                   <<StudyData(study_id)>>)
          /\ UNCHANGED <<studies, project_files, current_user>>
    /\ UNCHANGED NotAcl

\* POST /run-bootstrap (app_routes.py): the result is saved as a file of the study
run_bootstrap_study(study_id) ==
    /\ \/ LoginRequired("run_bootstrap", study_id)
       \/ current_user # Anonymous /\ NotFound("run_bootstrap", study_id)
       \/ /\ current_user # Anonymous
          /\ Found(studies, study_id)
          /\ IF studies[study_id][1].user_id # current_user
             THEN /\ served' = Served("run_bootstrap", study_id, "Unauthorized", FALSE, <<>>)
                  /\ UNCHANGED project_files
             ELSE /\ project_files' = [project_files EXCEPT ![study_id] = @ \cup {"simulated"}]
                  /\ served' = Served("run_bootstrap", study_id, "ok", TRUE, <<>>)
          /\ UNCHANGED <<studies, current_user>>
    /\ UNCHANGED NotAcl

\* GET /projects/admin/<study_id>
project_admin(study_id) ==
    /\ \/ NotFound("project_admin", study_id)
       \/ /\ Found(studies, study_id)
          /\ served' = Served("project_admin", study_id, "ok", FALSE, <<StudyData(study_id)>>)
          /\ UNCHANGED <<studies, project_files, current_user>>
    /\ UNCHANGED NotAcl

\* POST /projects/update/<study_id>; Study.name is unique: the commit of the name of
\* another study raises, rollback
update_project(study_id, study_name) ==
    /\ \/ NotFound("update_project", study_id)
       \/ /\ Found(studies, study_id)
          /\ IF \E other \in Studies \ {study_id} :
                   Found(studies, other) /\ studies[other][1].name = study_name
             THEN /\ served' = Served("update_project", study_id, "danger", FALSE, <<>>)
                  /\ UNCHANGED studies
             ELSE /\ studies' = [studies EXCEPT ![study_id] = <<[@[1] EXCEPT !.name = study_name]>>]
                  /\ served' = Served("update_project", study_id, "success",
                                      studies[study_id][1].name # study_name, <<>>)
          /\ UNCHANGED <<project_files, current_user>>
    /\ UNCHANGED NotAcl

\* POST /projects/delete/<study_id>
delete_project(study_id) ==
    /\ \/ NotFound("delete_project", study_id)
       \/ /\ Found(studies, study_id)
          /\ project_files' = [project_files EXCEPT ![study_id] = {}]
          /\ studies' = [studies EXCEPT ![study_id] = <<>>]
          /\ served' = Served("delete_project", study_id, "success", TRUE, <<>>)
          /\ UNCHANGED current_user
    /\ UNCHANGED NotAcl

\* GET /projects/export/<study_id>: the zip of the files of the study
export_project(study_id) ==
    /\ \/ NotFound("export_project", study_id)
       \/ /\ Found(studies, study_id)
          /\ served' = Served("export_project", study_id, "ok", FALSE, <<StudyData(study_id)>>)
          /\ UNCHANGED <<studies, project_files, current_user>>
    /\ UNCHANGED NotAcl

\* each user has made one study, with its CSV file and its map
InitAcl ==
    /\ studies = [s \in Studies |-> <<[user_id |-> s, name |-> IF s = 1 THEN "n1" ELSE "n2"]>>]
    /\ project_files = [s \in Studies |-> {"csv", "map"}]
    /\ current_user = Anonymous
    /\ served = NoRequest
    /\ EncIdle
    /\ DbIdle
    /\ WsIdle
    /\ BootIdle
    /\ MapIdle
    /\ ProtoIdle
    /\ CodeIdle
    /\ AnaIdle

NextAcl ==
    \/ \E user_id \in Users : login_user(user_id)
    \/ logout_user
    \/ \E study_id \in RequestedIds : view_study_results(study_id)
    \/ \E study_id \in RequestedIds : run_bootstrap_study(study_id)
    \/ \E study_id \in RequestedIds : project_admin(study_id)
    \/ \E study_id \in RequestedIds, study_name \in StudyNames :
          update_project(study_id, study_name)
    \/ \E study_id \in RequestedIds : delete_project(study_id)
    \/ \E study_id \in RequestedIds : export_project(study_id)

SpecAcl == InitAcl /\ [][NextAcl]_vars

(***************************************************************************)
(* C18 -- projects are per-user                                            *)
(***************************************************************************)
\* C18 as stated: a request that has viewed, updated, deleted or exported a study or
\* has run a bootstrap on it was made by the logged-in owner of the study; a request
\* for a study by another user or by an anonymous client has left the study and its
\* files unchanged and has returned none of its data.
C18_AsStated ==
    (served.route # "none" /\ served.owner # 0 /\ served.requester # served.owner)
    => (~served.changed /\ served.data = <<>>)
=============================================================================
